---- MODULE Spec2Model ----
(***************************************************************************)
(* Verification model of the Donetick Home Assistant integration           *)
(* (custom_components/donetick): the snapshot coordinator, the             *)
(* auto-completion manager, the past-due notification machinery, the       *)
(* completion guard and the self-rescheduling list classifiers.            *)
(*                                                                         *)
(* Time is an integer number of seconds on the local clock.  None is       *)
(* modelled by NoDue for a missing due date and by Unassigned for a        *)
(* missing assignee.  md5 over the sorted JSON dump is modelled as the     *)
(* tuple of the dumped fields (collision free).                            *)
(***************************************************************************)
EXTENDS Integers, Sequences, FiniteSets, TLC

\* ------------------------------------------------------------------------
\* Bounds of the model
\* ------------------------------------------------------------------------
MaxVersion == 3
MaxTick == 2
MaxReload == 1
MaxEdit == 1

\* ------------------------------------------------------------------------
\* Program constants
\* ------------------------------------------------------------------------
DAY == 86400
AUTO_EPSILON == 5
NEAR_WINDOW == 60
API_TIMEOUT == 10

\* ------------------------------------------------------------------------
\* Values
\* ------------------------------------------------------------------------
NoDue == 0 - 1
Unassigned == 0
NoTasks == << >>
NoCall == [kind |-> "none"]

FREQUENCY_ONCE == "once"
FREQUENCY_NO_REPEAT == "no_repeat"
FREQUENCY_MONTHLY == "monthly"
FREQUENCY_YEARLY == "yearly"
FREQUENCY_DAYS_OF_WEEK == "days_of_the_week"
FREQUENCY_DAY_OF_MONTH == "day_of_the_month"
FREQUENCY_DAILY == "daily"
FREQUENCY_WEEKLY == "weekly"
FREQUENCY_INTERVAL == "interval"

\* The list entities (classifiers) of one member: the date-filtered lists and
\* a time-of-day list.
DateList(list_type) == [cls |-> "DateFiltered", list_type |-> list_type]
TimeOfDayList(list_type) == [cls |-> "TimeOfDay", list_type |-> list_type]
\* A time-of-day list whose config entry holds the two cutoffs (in minutes
\* after local midnight); TimeOfDayList's entry holds neither.
TimeOfDayListWith(list_type, morning_cutoff, afternoon_cutoff) ==
  [cls |-> "TimeOfDay", list_type |-> list_type,
   morning_cutoff |-> morning_cutoff, afternoon_cutoff |-> afternoon_cutoff]
PastDueList == DateList("past_due")
Classifiers ==
  {PastDueList, DateList("due_today"), DateList("upcoming"), TimeOfDayList("morning")}

\* _scheduled_transition_cancel = None
NoHandle == [tid |-> 0]
\* _calculate_next_transition_time returned None
NoWake == 0 - 1

\* frequency_metadata: the keys the code reads, "" / {} / NoDay standing for
\* an absent key (None and {} read the same: `task.frequency_metadata or {}`).
NoDay == 0 - 1
NoMeta == [unit |-> "", days |-> {}, day |-> NoDay]

\* A DonetickTask restricted to the fields the modelled code reads.
MkTask(id, due, active, assigned, ftype, freq) ==
  [id |-> id, name |-> "task", description |-> "", next_due_date |-> due,
   is_active |-> active, assigned_to |-> assigned, priority |-> 0,
   frequency_type |-> ftype, frequency |-> freq, frequency_metadata |-> NoMeta]

\* ------------------------------------------------------------------------
\* State
\* ------------------------------------------------------------------------
VARIABLES
  tasks_by_id,     \* DonetickTaskCoordinator._tasks_by_id (the snapshot)
  task_hashes,     \* DonetickTaskCoordinator._task_hashes
  data_version,    \* DonetickTaskCoordinator._data_version
  pollResult,      \* outcome of the last _async_update_data call
  prevTasks,       \* snapshot before the last poll (history)
  prevVersion,     \* version before the last poll (history)
  lastResp,        \* the remote response the last poll received (history)
  now,             \* the local clock, in seconds
  ticks,           \* number of clock advances so far
  server,          \* the tasks as the remote service holds them
  edits,           \* number of changes users made on the remote so far
  pollInFlight,    \* the GET /chore request in flight, or NoCall
  timers,          \* live async_track_point_in_time registrations
  execs,           \* _execute_auto_completion coroutines awaiting the remote
  _scheduled_tasks,            \* AutoCompletionManager._scheduled_tasks
  _auto_completion_schedules,  \* module-level _auto_completion_schedules
  autoEnabled,     \* config_entry.data[CONF_AUTO_COMPLETE_PAST_DUE]
  mgrGen,          \* which AutoCompletionManager instance is the current one
  callCount,       \* remote CompleteTask calls per (task id, due) (history)
  lastStep,        \* the step taken last (history)
  _scheduled_transition_cancel,  \* per classifier: _scheduled_transition_cancel
  _cached_task_ids,              \* per classifier: _cached_task_ids
  _cached_data_version,          \* per classifier: _cached_data_version
  memberAtSchedule,  \* per classifier: its members when it last scheduled (history)
  lastPollAt,      \* when the coordinator last refreshed
  removed,         \* the list entities whose async_will_remove_from_hass has run
  notifyEnabled,   \* config_entry.data[CONF_NOTIFY_ON_PAST_DUE]
  notifyStore,     \* NotificationStore._data of the past-due list
  _notification_reminders,  \* module-level _notification_reminders
  evals,           \* _check_and_notify_past_due_tasks coroutines awaiting a send
  sentCount,       \* initial notifications sent per (task id, due) (history)
  failedSends,     \* the (task id, due) whose initial send failed at least once (history)
  reminderCalls,   \* reminder_callback coroutines awaiting their send
  _notification_store,  \* per member's past-due list added: its NotificationStore._data
  storage,         \* per member: the "notified_tasks" its Store holds on disk
  _recently_completed_task_ids,  \* module-level _recently_completed_task_ids
  requestLog       \* completion requests received so far (history)

coordVars == <<tasks_by_id, task_hashes, data_version>>
pollHist == <<pollResult, prevTasks, prevVersion, lastResp>>
clockVars == <<now, ticks>>
autoVars == <<timers, execs, _scheduled_tasks, _auto_completion_schedules,
              autoEnabled, mgrGen, callCount>>
transVars == <<_scheduled_transition_cancel, _cached_task_ids, _cached_data_version,
               memberAtSchedule, lastPollAt, removed>>
memberStores == <<_notification_store, storage>>
notifyVars == <<notifyEnabled, notifyStore, _notification_reminders, evals, sentCount,
                failedSends, reminderCalls, memberStores>>
guardVars == <<_recently_completed_task_ids, requestLog>>
extVars == <<transVars, notifyVars, guardVars>>
vars == <<coordVars, pollHist, clockVars, server, edits, pollInFlight, autoVars, lastStep,
          extVars>>

\* ------------------------------------------------------------------------
\* DonetickApiClient.async_get_tasks
\* ------------------------------------------------------------------------
\* A remote response: a task list, a body that cannot be parsed, or a
\* transport failure (aiohttp.ClientError raised by _request).
OkResp(tasks) == [kind |-> "ok", tasks |-> tasks]
MalformedResp == [kind |-> "malformed", tasks |-> NoTasks]
TransportErrorResp == [kind |-> "transport_error", tasks |-> NoTasks]

\* Result of async_get_tasks: parse errors are caught and turned into an
\* empty list; transport errors are re-raised.
async_get_tasks(resp) ==
  CASE resp.kind = "ok" -> [raised |-> FALSE, tasks |-> resp.tasks]
    [] resp.kind = "malformed" -> [raised |-> FALSE, tasks |-> NoTasks]
    [] OTHER -> [raised |-> TRUE, tasks |-> NoTasks]

\* ------------------------------------------------------------------------
\* DonetickTaskCoordinator
\* ------------------------------------------------------------------------
\* Mutant: the hash forgets the due date.
_hash_task_NoDueDate(task) ==
  <<task.id, task.name, task.description, task.is_active,
    task.assigned_to, task.priority, task.frequency_type>>

_hash_task(task) ==
  <<task.id, task.name, task.description, task.next_due_date, task.is_active,
    task.assigned_to, task.priority, task.frequency_type>>

added_ids(new) == DOMAIN new \ DOMAIN tasks_by_id
removed_ids(new) == DOMAIN tasks_by_id \ DOMAIN new
updated_ids(new) ==
  {i \in DOMAIN new \cap DOMAIN tasks_by_id : _hash_task(new[i]) # task_hashes[i]}

has_changes(new) ==
  added_ids(new) # {} \/ removed_ids(new) # {} \/ updated_ids(new) # {}

\* Mutant: the cache is updated in place, task by task, and tasks the remote
\* no longer returns stay in it.
_async_update_data_InPlace(got) ==
  IF got.raised
  THEN UNCHANGED coordVars
  ELSE IF has_changes(got.tasks)
       THEN /\ tasks_by_id' = got.tasks @@ tasks_by_id
            /\ task_hashes' = [i \in DOMAIN got.tasks |-> _hash_task(got.tasks[i])]
            /\ data_version' = data_version + 1
       ELSE UNCHANGED coordVars

\* The body of _async_update_data once async_get_tasks has returned `got`.
_async_update_data(got) ==
  IF got.raised
  THEN UNCHANGED coordVars
  ELSE IF has_changes(got.tasks)
       THEN /\ tasks_by_id' = got.tasks
            /\ task_hashes' = [i \in DOMAIN got.tasks |-> _hash_task(got.tasks[i])]
            /\ data_version' = data_version + 1
       ELSE UNCHANGED coordVars


\* ------------------------------------------------------------------------
\* Specification SpecPoll: the coordinator polled with arbitrary responses
\* ------------------------------------------------------------------------
PollBase == MkTask(1, 5, TRUE, 1, FREQUENCY_ONCE, 1)

\* Task 1 as the remote may return it: the base task, or the base task with
\* exactly one field changed (the last two change a field outside the hash).
PollVariants ==
  { PollBase,
    [PollBase EXCEPT !.name = "renamed"],
    [PollBase EXCEPT !.description = "text"],
    [PollBase EXCEPT !.next_due_date = 9],
    [PollBase EXCEPT !.next_due_date = NoDue],
    [PollBase EXCEPT !.is_active = FALSE],
    [PollBase EXCEPT !.assigned_to = Unassigned],
    [PollBase EXCEPT !.priority = 1],
    [PollBase EXCEPT !.frequency_type = FREQUENCY_DAILY],
    [PollBase EXCEPT !.frequency = 2],
    [PollBase EXCEPT !.frequency_metadata.unit = "weeks"] }

PollOther == MkTask(2, NoDue, TRUE, Unassigned, FREQUENCY_ONCE, 1)

PollTaskLists ==
  {NoTasks} \cup {(2 :> PollOther)}
    \cup {(1 :> t) : t \in PollVariants}
    \cup {(1 :> t) @@ (2 :> PollOther) : t \in PollVariants}

InitCoordinator ==
  /\ tasks_by_id = NoTasks
  /\ task_hashes = NoTasks
  /\ data_version = 0
  /\ pollResult = "none"
  /\ prevTasks = NoTasks
  /\ prevVersion = 0
  /\ lastResp = OkResp(NoTasks)

\* The auto-completion manager right after construction.
InitAutoManager ==
  /\ timers = {}
  /\ execs = {}
  /\ _scheduled_tasks = NoTasks
  /\ _auto_completion_schedules = NoTasks
  /\ autoEnabled = TRUE
  /\ mgrGen = 0
  /\ callCount = NoTasks

\* The list entities right after construction (DonetickTodoListBase.__init__
\* and the subclasses' __init__).
InitClassifiers ==
  /\ _scheduled_transition_cancel = [c \in Classifiers |-> NoHandle]
  /\ _cached_task_ids = [c \in Classifiers |-> {}]
  /\ _cached_data_version = [c \in Classifiers |-> 0 - 1]
  /\ memberAtSchedule = [c \in Classifiers |-> {}]
  /\ lastPollAt = 0
  /\ removed = {}

\* The notification store and the reminder map before anything was sent.
\* No member's past-due list is followed and nothing is stored on disk.
InitMemberStores ==
  /\ _notification_store = NoTasks
  /\ storage = NoTasks

InitNotifications ==
  /\ InitMemberStores
  /\ notifyEnabled = FALSE
  /\ notifyStore = NoTasks
  /\ _notification_reminders = NoTasks
  /\ evals = {}
  /\ sentCount = NoTasks
  /\ failedSends = {}
  /\ reminderCalls = {}

\* The completion guard before any completion request.
InitGuard ==
  /\ _recently_completed_task_ids = NoTasks
  /\ requestLog = {}

InitExt == InitClassifiers /\ InitNotifications /\ InitGuard

\* One complete _async_update_data call that received `resp`.
Poll(resp) ==
  /\ data_version < MaxVersion
  /\ _async_update_data(async_get_tasks(resp))
  /\ pollResult' = IF async_get_tasks(resp).raised THEN "raised" ELSE "returned"
  /\ prevTasks' = tasks_by_id
  /\ prevVersion' = data_version
  /\ lastResp' = resp
  /\ lastStep' = [kind |-> "other"]
  /\ UNCHANGED <<clockVars, server, edits, pollInFlight, autoVars>>
  /\ UNCHANGED extVars

PollOk == \E tasks \in PollTaskLists : Poll(OkResp(tasks))
PollMalformed == Poll(MalformedResp)
PollTransportError == Poll(TransportErrorResp)

InitPoll ==
  /\ InitCoordinator
  /\ InitAutoManager
  /\ now = 0
  /\ ticks = 0
  /\ server = NoTasks
  /\ edits = 0
  /\ pollInFlight = NoCall
  /\ lastStep = [kind |-> "other"]
  /\ InitExt
NextPoll == PollOk \/ PollMalformed \/ PollTransportError
SpecPoll == InitPoll /\ [][NextPoll]_vars

\* ------------------------------------------------------------------------
\* Claims on the coordinator
\* ------------------------------------------------------------------------
\* The fields the specification calls display relevant, compared one by one.
DisplayDiffers(a, b) ==
  \/ a.id # b.id
  \/ a.name # b.name
  \/ a.description # b.description
  \/ a.next_due_date # b.next_due_date
  \/ a.is_active # b.is_active
  \/ a.assigned_to # b.assigned_to
  \/ a.priority # b.priority
  \/ a.frequency_type # b.frequency_type

ContentChanged(old, new) ==
  \/ DOMAIN old # DOMAIN new
  \/ \E i \in DOMAIN new \cap DOMAIN old : DisplayDiffers(old[i], new[i])

\* C4: after a successful poll the version has grown by exactly one, and the
\* snapshot is the polled one, if and only if the id set or a display
\* relevant field differs from the previous snapshot; otherwise the version
\* and the snapshot are the previous ones.
C4_VersionIffChanged ==
  (pollResult = "returned" /\ lastResp.kind = "ok") =>
     IF ContentChanged(prevTasks, lastResp.tasks)
     THEN data_version = prevVersion + 1 /\ tasks_by_id = lastResp.tasks
     ELSE data_version = prevVersion /\ tasks_by_id = prevTasks

\* C4 witness: a successful poll returned new task objects (differing in a
\* field outside the hash) for a non-empty snapshot and the version stayed.
C4_Witness ==
  /\ pollResult = "returned"
  /\ lastResp.kind = "ok"
  /\ DOMAIN prevTasks # {}
  /\ lastResp.tasks # prevTasks
  /\ data_version = prevVersion
  /\ tasks_by_id = prevTasks

\* C5: when the remote fetch fails the previous snapshot and version are
\* retained and no exception leaves the poll.
C5_FetchFailureKeepsSnapshot ==
  (pollResult # "none" /\ lastResp.kind # "ok") =>
     /\ tasks_by_id = prevTasks
     /\ data_version = prevVersion
     /\ pollResult # "raised"

\* C36: after a poll that returned a task list, every task of the snapshot
\* carries the recurrence interval and the recurrence metadata of that list.
C36_RecurrenceFieldsFollowPoll ==
  (pollResult = "returned" /\ lastResp.kind = "ok") =>
     \A i \in DOMAIN tasks_by_id \cap DOMAIN lastResp.tasks :
        /\ tasks_by_id[i].frequency = lastResp.tasks[i].frequency
        /\ tasks_by_id[i].frequency_metadata = lastResp.tasks[i].frequency_metadata

\* C21: every step of the coordinator either leaves the snapshot, its hashes
\* and the version exactly as they were, or replaces all three together: the
\* snapshot is the whole polled dictionary, the hashes are those of its
\* tasks and the version is the old one plus one.  No state shows a snapshot
\* that mixes old and new tasks or a version that does not belong to it.
C21_SnapshotSwappedWhole ==
  [][ LET new == async_get_tasks(lastResp').tasks
      IN \/ /\ tasks_by_id' = tasks_by_id
            /\ task_hashes' = task_hashes
            /\ data_version' = data_version
         \/ /\ data_version' = data_version + 1
            /\ tasks_by_id' = new
            /\ task_hashes' = [i \in DOMAIN new |-> _hash_task(new[i])] ]_vars

\* C21 witness: a poll replaced a snapshot by one that lacks a task of the
\* old snapshot and holds a task the old one did not have.
C21_Witness ==
  /\ pollResult = "returned"
  /\ data_version = prevVersion + 1
  /\ DOMAIN prevTasks \ DOMAIN tasks_by_id # {}
  /\ DOMAIN tasks_by_id \ DOMAIN prevTasks # {}
  /\ tasks_by_id = lastResp.tasks



\* ------------------------------------------------------------------------
\* Helpers on finite maps and numbers
\* ------------------------------------------------------------------------
Remove(f, k) == [x \in DOMAIN f \ {k} |-> f[x]]
Put(f, k, v) == (k :> v) @@ f
Abs(x) == IF x < 0 THEN 0 - x ELSE x
MinOf(S) == CHOOSE x \in S : \A y \in S : x <= y

\* ------------------------------------------------------------------------
\* Recurrence helpers (module level functions of todo.py)
\* ------------------------------------------------------------------------
_is_recurrent_task(task) ==
  task.frequency_type \notin {FREQUENCY_ONCE, FREQUENCY_NO_REPEAT, "None", ""}

\* ------------------------------------------------------------------------
\* Civil dates: second 0 is 00:00 local time on 1 January of EPOCH_YEAR
\* ------------------------------------------------------------------------
EPOCH_YEAR == 2023
MaxYear == 2032
\* datetime.weekday() of 1 January 2023, a Sunday
EPOCH_WEEKDAY == 6

IsLeap(year) == year % 4 = 0 /\ (year % 100 # 0 \/ year % 400 = 0)

\* calendar.monthrange(year, month)[1]
monthrange(year, month) ==
  CASE month \in {4, 6, 9, 11} -> 30
    [] month = 2 -> IF IsLeap(year) THEN 29 ELSE 28
    [] OTHER -> 31

RECURSIVE DaysBeforeYear(_)
DaysBeforeYear(year) ==
  IF year <= EPOCH_YEAR THEN 0
  ELSE DaysBeforeYear(year - 1) + (IF IsLeap(year - 1) THEN 366 ELSE 365)

RECURSIVE DaysBeforeMonth(_, _)
DaysBeforeMonth(year, month) ==
  IF month <= 1 THEN 0
  ELSE DaysBeforeMonth(year, month - 1) + monthrange(year, month - 1)

\* The year, month and day of an instant (datetime.year, .month, .day).
YearOf(dt) ==
  CHOOSE y \in EPOCH_YEAR..MaxYear :
    DaysBeforeYear(y) <= dt \div DAY /\ dt \div DAY < DaysBeforeYear(y + 1)

MonthOf(dt) ==
  LET in_year == dt \div DAY - DaysBeforeYear(YearOf(dt))
  IN CHOOSE m \in 1..12 :
       /\ DaysBeforeMonth(YearOf(dt), m) <= in_year
       /\ in_year < DaysBeforeMonth(YearOf(dt), m) + monthrange(YearOf(dt), m)

DayOf(dt) ==
  dt \div DAY - DaysBeforeYear(YearOf(dt)) - DaysBeforeMonth(YearOf(dt), MonthOf(dt)) + 1

\* datetime.weekday(): Monday is 0
weekday(dt) == ((dt \div DAY) + EPOCH_WEEKDAY) % 7

\* The outcome "the call raised an exception" of a function returning an
\* instant or None.
Raises == 0 - 2

\* dt.replace(year=year, month=month, day=day): ValueError when the month has
\* no such day.
replace(dt, year, month, day) ==
  IF month \notin 1..12 \/ day < 1 \/ day > monthrange(year, month) THEN Raises
  ELSE (DaysBeforeYear(year) + DaysBeforeMonth(year, month) + day - 1) * DAY + (dt % DAY)

\* `while month > 12: month -= 12; year += 1`, as <<year, month>>.
RECURSIVE YearRollover(_, _)
YearRollover(year, month) ==
  IF month > 12 THEN YearRollover(year + 1, month - 12) ELSE <<year, month>>

\* The monthly branch: the same day freq months later, the day clamped to
\* the length of the target month.
AddMonthsClamped(dt, freq) ==
  LET ym == YearRollover(YearOf(dt), MonthOf(dt) + freq)
      max_day == monthrange(ym[1], ym[2])
  IN replace(dt, ym[1], ym[2], MinOf({DayOf(dt), max_day}))

\* The days_of_the_week branch: the first of the eight days after the due
\* day whose weekday is listed, else one week later.
NextListedWeekday(dt, days) ==
  LET hits == {k \in 1..8 : weekday(dt + k * DAY) \in days}
  IN IF hits # {} THEN dt + MinOf(hits) * DAY ELSE dt + 7 * DAY

\* The day_of_the_month branch: the target day of the next month, clamped
\* from above only.
NextMonthOnDay(dt, target_day) ==
  LET year == IF MonthOf(dt) + 1 > 12 THEN YearOf(dt) + 1 ELSE YearOf(dt)
      month == IF MonthOf(dt) + 1 > 12 THEN 1 ELSE MonthOf(dt) + 1
  IN replace(dt, year, month, MinOf({target_day, monthrange(year, month)}))

\* Next recurrence of a task: an instant, NoDue standing for None, or Raises
\* when datetime.replace rejects the date.
_calculate_next_recurrence_date(task) ==
  IF ~_is_recurrent_task(task) THEN NoDue
  ELSE IF task.next_due_date = NoDue THEN NoDue
  ELSE LET due_date_local == task.next_due_date
           freq == IF task.frequency # 0 THEN task.frequency ELSE 1
           metadata == task.frequency_metadata
           unit == IF metadata.unit = "" THEN "days" ELSE metadata.unit
       IN CASE task.frequency_type = FREQUENCY_DAILY -> due_date_local + freq * DAY
            [] task.frequency_type = FREQUENCY_WEEKLY -> due_date_local + freq * 7 * DAY
            [] task.frequency_type = FREQUENCY_MONTHLY ->
                 AddMonthsClamped(due_date_local, freq)
            [] task.frequency_type = FREQUENCY_YEARLY ->
                 replace(due_date_local, YearOf(due_date_local) + freq,
                         MonthOf(due_date_local), DayOf(due_date_local))
            [] task.frequency_type = FREQUENCY_INTERVAL ->
                 CASE unit = "weeks" -> due_date_local + freq * 7 * DAY
                   [] unit = "months" -> AddMonthsClamped(due_date_local, freq)
                   [] unit = "years" ->
                        replace(due_date_local, YearOf(due_date_local) + freq,
                                MonthOf(due_date_local), DayOf(due_date_local))
                   [] OTHER -> due_date_local + freq * DAY
            [] task.frequency_type = FREQUENCY_DAYS_OF_WEEK ->
                 IF metadata.days = {} THEN NoDue
                 ELSE NextListedWeekday(due_date_local, metadata.days)
            [] task.frequency_type = FREQUENCY_DAY_OF_MONTH ->
                 NextMonthOnDay(due_date_local,
                                IF metadata.day = NoDay THEN DayOf(due_date_local)
                                ELSE metadata.day)
            [] OTHER -> NoDue

\* Mutant: the instant is returned as it is, not moved to its midnight.
_get_midnight_of_date_Identity(dt) == dt

_get_midnight_of_date(dt) == dt - (dt % DAY)

\* ------------------------------------------------------------------------
\* AutoCompletionManager
\* ------------------------------------------------------------------------
\* The manager's maps and the registered timers, threaded through the
\* synchronous helpers as one record [sched, glob, timers].
AutoState ==
  [sched |-> _scheduled_tasks, glob |-> _auto_completion_schedules,
   timers |-> timers, enabled |-> autoEnabled, owner |-> mgrGen]

\* async_track_point_in_time: the returned cancel handle is the timer itself.
UsedTids(m) ==
  {t.tid : t \in m.timers} \cup {m.sched[i].tid : i \in DOMAIN m.sched}
    \cup {m.glob[i].cancel.tid : i \in DOMAIN m.glob} \cup {e.tid : e \in execs}

FreshTid(m) ==
  MinOf({n \in 1..(Cardinality(UsedTids(m)) + 1) : n \notin UsedTids(m)})

AutoTimer(m, task, when) ==
  [tid |-> FreshTid(m), purpose |-> "auto", key |-> task.id, at |-> when,
   owner |-> m.owner, occ |-> task.next_due_date]

_cancel_schedule(m, task_id) ==
  LET m1 == IF task_id \in DOMAIN m.sched
            THEN [m EXCEPT !.timers = @ \ {m.sched[task_id]},
                           !.sched = Remove(@, task_id)]
            ELSE m
  IN IF task_id \in DOMAIN m1.glob
     THEN [m1 EXCEPT !.glob = Remove(@, task_id)]
     ELSE m1

_schedule_auto_completion(m, task, when) ==
  IF /\ task.id \in DOMAIN m.glob
     /\ Abs(m.glob[task.id].when - when) < NEAR_WINDOW
  THEN m
  ELSE LET m1 == IF task.id \in DOMAIN m.glob
                 THEN _cancel_schedule(m, task.id)
                 ELSE m
           cancel == AutoTimer(m1, task, when)
       IN [m1 EXCEPT !.timers = @ \cup {cancel},
                     !.sched = Put(@, task.id, cancel),
                     !.glob = Put(@, task.id, [cancel |-> cancel, when |-> when])]

\* The tasks process_tasks collects in current_task_ids.
PastDueRecurrent(tasks) ==
  {i \in DOMAIN tasks :
     /\ tasks[i].is_active
     /\ _is_recurrent_task(tasks[i])
     /\ tasks[i].next_due_date # NoDue
     /\ tasks[i].next_due_date < now}

\* The iteration of the loop of process_tasks for this task leaves
\* process_tasks with the exception _calculate_next_recurrence_date raised
\* (there is no try around the call).
RaisesIn(task) ==
  /\ task.is_active
  /\ _is_recurrent_task(task)
  /\ task.next_due_date # NoDue
  /\ task.next_due_date < now
  /\ _calculate_next_recurrence_date(task) = Raises

\* One iteration of the loop of process_tasks that does not raise.
ProcessOneTask(m, task) ==
  IF ~task.is_active THEN m
  ELSE IF ~_is_recurrent_task(task) THEN m
  ELSE IF task.next_due_date = NoDue THEN m
  ELSE IF task.next_due_date >= now THEN _cancel_schedule(m, task.id)
  ELSE LET next_recurrence == _calculate_next_recurrence_date(task)
           midnight == _get_midnight_of_date(next_recurrence)
       IN IF next_recurrence \in {NoDue, Raises} THEN m
          ELSE _schedule_auto_completion(m, task,
                 IF midnight <= now THEN now + AUTO_EPSILON ELSE midnight)

\* The loop over the tasks in the order of the snapshot; it ends at the
\* first task whose iteration raises.
RECURSIVE ProcessLoop(_, _, _)
ProcessLoop(m, tasks, ids) ==
  IF ids = {} THEN m
  ELSE LET i == MinOf(ids)
       IN IF RaisesIn(tasks[i]) THEN m
          ELSE ProcessLoop(ProcessOneTask(m, tasks[i]), tasks, ids \ {i})

RECURSIVE CancelEach(_, _)
CancelEach(m, ids) ==
  IF ids = {} THEN m
  ELSE LET i == MinOf(ids) IN CancelEach(_cancel_schedule(m, i), ids \ {i})

\* Mutant: the loop does not skip inactive tasks.
process_tasks_IgnoresActive(m, tasks) ==
  IF ~m.enabled THEN m
  ELSE LET forced == [i \in DOMAIN tasks |-> [tasks[i] EXCEPT !.is_active = TRUE]]
           m1 == ProcessLoop(m, forced, DOMAIN forced)
       IN CancelEach(m1, DOMAIN m1.sched \ PastDueRecurrent(forced))

\* Mutant: the configuration flag is not consulted.
process_tasks_IgnoresFlag(m, tasks) ==
  LET m1 == ProcessLoop(m, tasks, DOMAIN tasks)
  IN CancelEach(m1, DOMAIN m1.sched \ PastDueRecurrent(tasks))

\* process_tasks(list(coordinator.data.values())): the state it leaves.  An
\* exception in the loop also skips the cancellations after the loop.
process_tasks(m, tasks) ==
  IF ~m.enabled THEN m
  ELSE LET m1 == ProcessLoop(m, tasks, DOMAIN tasks)
       IN IF \E i \in DOMAIN tasks : RaisesIn(tasks[i]) THEN m1
          ELSE CancelEach(m1, DOMAIN m1.sched \ PastDueRecurrent(tasks))

\* The coordinator listener of async_setup_entry: `if coordinator.data:`.
AutoListener(m, tasks) ==
  IF DOMAIN tasks # {} THEN process_tasks(m, tasks) ELSE m


SetAutoState(m) ==
  /\ timers' = m.timers
  /\ _scheduled_tasks' = m.sched
  /\ _auto_completion_schedules' = m.glob

\* ------------------------------------------------------------------------
\* The remote service and the clock, as the auto-completion manager sees them
\* ------------------------------------------------------------------------
AutoStart == 3 * DAY + 1000
AutoDues == {2 * DAY + 500, 3 * DAY + 500, 4 * DAY + 500}
AutoTask(due, active, ftype) == MkTask(1, due, active, 1, ftype, 1)

\* POST /chore/{id}/complete on the remote: a recurring task moves to its
\* next occurrence, a one-time task is closed.
ServerComplete(srv, id) ==
  IF _is_recurrent_task(srv[id])
  THEN [srv EXCEPT ![id].next_due_date = _calculate_next_recurrence_date(srv[id])]
  ELSE [srv EXCEPT ![id].is_active = FALSE]

\* What a user may turn the task into on the remote: another due instant,
\* deactivated, or no longer repeating.
AutoEdits ==
  {AutoTask(due, TRUE, FREQUENCY_DAILY) : due \in AutoDues}
    \cup {AutoTask(2 * DAY + 500, FALSE, FREQUENCY_DAILY),
          AutoTask(2 * DAY + 500, TRUE, FREQUENCY_ONCE)}

\* A user changes the task on the remote.
ServerEdit ==
  /\ edits < MaxEdit
  /\ edits' = edits + 1
  /\ \E task \in AutoEdits :
       /\ server' = (1 :> task)
       /\ server' # server
  /\ lastStep' = [kind |-> "other"]
  /\ UNCHANGED <<coordVars, pollHist, clockVars, pollInFlight, autoVars>>
  /\ UNCHANGED extVars

\* A user deletes the task on the remote.
ServerDelete ==
  /\ edits < MaxEdit
  /\ edits' = edits + 1
  /\ server # NoTasks
  /\ server' = NoTasks
  /\ lastStep' = [kind |-> "other"]
  /\ UNCHANGED <<coordVars, pollHist, clockVars, pollInFlight, autoVars>>
  /\ UNCHANGED extVars

\* Every remote call ends within the client's total timeout.
CallsAllowClock(t) ==
  /\ \A e \in execs : t <= e.started + API_TIMEOUT
  /\ IF pollInFlight.kind = "none" THEN TRUE
     ELSE t <= pollInFlight.started + API_TIMEOUT

\* Registered timers fire when their instant is reached: the clock does not
\* run past a live timer.
TimersAllowClock(t) == \A tm \in timers : t <= tm.at

TickTargets ==
  {now + AUTO_EPSILON, now + NEAR_WINDOW} \cup {tm.at : tm \in timers}

Tick ==
  /\ ticks < MaxTick
  /\ \E t \in TickTargets :
       /\ t > now
       /\ CallsAllowClock(t)
       /\ TimersAllowClock(t)
       /\ now' = t
  /\ ticks' = ticks + 1
  /\ lastStep' = [kind |-> "other"]
  /\ UNCHANGED <<coordVars, pollHist, server, edits, pollInFlight, autoVars>>
  /\ UNCHANGED extVars

\* ------------------------------------------------------------------------
\* Polls seen by the auto-completion manager
\* ------------------------------------------------------------------------
\* The coordinator issues GET /chore; the remote answers from its state at
\* that moment.  (A failed poll changes nothing the manager reads.)
PollStart ==
  /\ pollInFlight = NoCall
  /\ data_version < MaxVersion
  /\ pollInFlight' = [kind |-> "poll", resp |-> OkResp(server), started |-> now]
  /\ lastStep' = [kind |-> "other"]
  /\ UNCHANGED <<coordVars, pollHist, clockVars, server, edits, autoVars>>
  /\ UNCHANGED extVars

\* The answer arrives: _async_update_data finishes and, on success, the
\* listener registered by async_setup_entry runs process_tasks.
PollFinishAuto ==
  /\ pollInFlight # NoCall
  /\ LET got == async_get_tasks(pollInFlight.resp)
     IN /\ _async_update_data(got)
        /\ UNCHANGED pollResult
        /\ IF got.raised
           THEN /\ UNCHANGED <<timers, _scheduled_tasks, _auto_completion_schedules>>
                /\ lastStep' = [kind |-> "other"]
           ELSE /\ SetAutoState(AutoListener(AutoState, tasks_by_id'))
                /\ lastStep' =
                     [kind |-> IF DOMAIN tasks_by_id' = {} THEN "other"
                               ELSE IF autoEnabled THEN "evaluated" ELSE "disabled",
                      scheduled |-> {tm.key : tm \in timers' \ timers}]
  /\ pollInFlight' = NoCall
  /\ UNCHANGED <<prevTasks, prevVersion, lastResp>>
  /\ UNCHANGED <<clockVars, server, edits, execs, autoEnabled, mgrGen, callCount>>
  /\ UNCHANGED extVars

\* ------------------------------------------------------------------------
\* Auto-completion timers
\* ------------------------------------------------------------------------
Count(f, k) == IF k \in DOMAIN f THEN f[k] ELSE 0

\* auto_complete_callback: the timer fires and _execute_auto_completion runs
\* up to its await on client.async_complete_task.
AutoTimerFire ==
  /\ \E tm \in timers :
       /\ tm.purpose = "auto"
       /\ tm.at <= now
       /\ timers' = timers \ {tm}
       /\ execs' = execs \cup
            {[tid |-> tm.tid, task |-> tm.key, occ |-> tm.occ,
              owner |-> tm.owner, started |-> now]}
       /\ callCount' = Put(callCount, <<tm.key, tm.occ>>,
                           Count(callCount, <<tm.key, tm.occ>>) + 1)
  /\ lastStep' = [kind |-> "other"]
  /\ UNCHANGED <<coordVars, pollHist, clockVars, server, edits, pollInFlight,
                 _scheduled_tasks, _auto_completion_schedules, autoEnabled, mgrGen>>
  /\ UNCHANGED extVars

\* The remote completed the task: the try block of _execute_auto_completion
\* runs to its end (the refresh it requests is a later PollStart).
ExecSuccess ==
  /\ \E e \in execs :
       /\ e.task \in DOMAIN server
       /\ server' = ServerComplete(server, e.task)
       /\ execs' = execs \ {e}
       /\ _scheduled_tasks' =
            IF e.owner = mgrGen THEN Remove(_scheduled_tasks, e.task)
            ELSE _scheduled_tasks
       /\ _auto_completion_schedules' = Remove(_auto_completion_schedules, e.task)
  /\ lastStep' = [kind |-> "other"]
  /\ UNCHANGED <<coordVars, pollHist, clockVars, edits, pollInFlight, timers,
                 autoEnabled, mgrGen, callCount>>
  /\ UNCHANGED extVars

\* The remote call raised: the except block only logs.  The failed attempt
\* is taken out of the count of calls.
ExecFail ==
  /\ \E e \in execs :
       /\ execs' = execs \ {e}
       /\ callCount' = Put(callCount, <<e.task, e.occ>>,
                           Count(callCount, <<e.task, e.occ>>) - 1)
       /\ lastStep' = [kind |-> "exec_failed"]
  /\ UNCHANGED <<coordVars, pollHist, clockVars, server, edits, pollInFlight, timers,
                 _scheduled_tasks, _auto_completion_schedules, autoEnabled, mgrGen>>
  /\ UNCHANGED extVars

\* The config entry is reloaded: async_unload_entry drops the manager without
\* cancelling its timers, the module-level map survives, async_setup_entry
\* builds a new coordinator (first refresh) and a new manager and processes
\* the initial tasks.  A reload is also what follows a change of the
\* options, so the flag may differ afterwards.
Reload ==
  /\ mgrGen < MaxReload
  /\ autoEnabled' \in BOOLEAN
  /\ SetAutoState(AutoListener(
       [sched |-> NoTasks, glob |-> _auto_completion_schedules,
        timers |-> timers, enabled |-> autoEnabled', owner |-> mgrGen + 1],
       server))
  /\ mgrGen' = mgrGen + 1
  /\ tasks_by_id' = server
  /\ task_hashes' = [i \in DOMAIN server |-> _hash_task(server[i])]
  /\ data_version' = IF DOMAIN server # {} THEN 1 ELSE 0
  /\ pollInFlight' = NoCall
  /\ lastStep' = [kind |-> "other"]
  /\ UNCHANGED <<pollHist, clockVars, server, edits, execs, callCount>>
  /\ UNCHANGED extVars

\* The state async_setup_entry leaves: the first refresh has fetched the
\* remote tasks and the new manager has processed them.
InitAuto ==
  /\ now = AutoStart
  /\ ticks = 0
  /\ server \in {(1 :> AutoTask(due, TRUE, FREQUENCY_DAILY)) : due \in AutoDues}
  /\ edits = 0
  /\ pollInFlight = NoCall
  /\ tasks_by_id = server
  /\ task_hashes = [i \in DOMAIN server |-> _hash_task(server[i])]
  /\ data_version = 1
  /\ pollResult = "none"
  /\ prevTasks = NoTasks
  /\ prevVersion = 0
  /\ lastResp = OkResp(NoTasks)
  /\ execs = {}
  /\ autoEnabled \in BOOLEAN
  /\ mgrGen = 0
  /\ callCount = NoTasks
  /\ LET m == AutoListener([sched |-> NoTasks, glob |-> NoTasks, timers |-> {},
                            enabled |-> autoEnabled, owner |-> 0], server)
     IN /\ timers = m.timers
        /\ _scheduled_tasks = m.sched
        /\ _auto_completion_schedules = m.glob
  /\ lastStep = [kind |-> "other"]
  /\ InitExt

NextAuto ==
  \/ ServerEdit
  \/ ServerDelete
  \/ Tick
  \/ PollStart
  \/ PollFinishAuto
  \/ AutoTimerFire
  \/ ExecSuccess
  \/ ExecFail
  \/ Reload

SpecAuto == InitAuto /\ [][NextAuto]_vars


\* ------------------------------------------------------------------------
\* Claims on the auto-completion manager
\* ------------------------------------------------------------------------
AutoTimersOf(task_id) ==
  {tm \in timers : tm.purpose = "auto" /\ tm.key = task_id}

\* C2: for every overdue occurrence (task id, dueAt) auto-completion issues
\* at most one remote CompleteTask call (attempts whose call failed are not
\* counted: their retry is the subject of C10).
C2_OneCompletionPerOccurrence ==
  \A occ \in DOMAIN callCount : callCount[occ] <= 1

\* C9 (auto-completion purpose): at most one live timer per task id.
C9_OneLiveTimerPerTask ==
  \A task_id \in {tm.key : tm \in timers} :
     Cardinality(AutoTimersOf(task_id)) <= 1

\* A task the scheduler would schedule: active, recurring, overdue, with a
\* next occurrence.
Eligible(task_id) ==
  /\ task_id \in PastDueRecurrent(tasks_by_id)
  /\ _calculate_next_recurrence_date(tasks_by_id[task_id]) # NoDue

\* The schedule entry of a failed attempt: its timer has fired and no call
\* for it is in flight any more.
StaleEntry(task_id) ==
  /\ task_id \in DOMAIN _auto_completion_schedules
  /\ _auto_completion_schedules[task_id].cancel \notin timers
  /\ \A e \in execs : e.tid # _auto_completion_schedules[task_id].cancel.tid

\* C10: a failed completion call keeps the schedule entry and starts no
\* call of its own, and the next evaluation that finds the task still
\* eligible leaves a new attempt scheduled for it.
C10_FailureRetriedOnNextEvaluation ==
  [][ /\ lastStep'.kind = "exec_failed" =>
           /\ _auto_completion_schedules' = _auto_completion_schedules
           /\ timers' = timers
           /\ execs' \subseteq execs
      /\ lastStep'.kind = "evaluated" =>
           \A task_id \in DOMAIN tasks_by_id' :
              (StaleEntry(task_id) /\ Eligible(task_id)') =>
                 AutoTimersOf(task_id)' # {} ]_vars

\* C15: after a snapshot update has been evaluated, no task of the snapshot
\* that is inactive, not recurring, without a due instant or not past due has
\* a pending auto-completion.
C15_NoScheduleUnlessPastDueRecurrent ==
  lastStep.kind = "evaluated" =>
     \A task_id \in DOMAIN tasks_by_id :
        task_id \notin PastDueRecurrent(tasks_by_id) => AutoTimersOf(task_id) = {}

\* The auto-completion timers a step registers.
NewAutoTimers == {tm \in timers' \ timers : tm.purpose = "auto"}

\* C16: a step registers an auto-completion only for a task of the snapshot
\* that is active, recurring (its kind is neither once nor no-repeat), has a
\* due instant before now and has a next occurrence; never for a one-time task.
C16_ScheduledOnlyIfEligible ==
  [][ \A tm \in NewAutoTimers :
         /\ tm.key \in DOMAIN tasks_by_id'
         /\ LET task == tasks_by_id'[tm.key]
            IN /\ task.is_active
               /\ task.frequency_type \notin {FREQUENCY_ONCE, FREQUENCY_NO_REPEAT}
               /\ task.next_due_date # NoDue
               /\ task.next_due_date < now
               /\ _calculate_next_recurrence_date(task) # NoDue ]_vars

\* C16 witness: the evaluation of a snapshot update registered an
\* auto-completion, and every task it registered one for is eligible.
C16_Witness ==
  /\ lastStep.kind = "evaluated"
  /\ lastStep.scheduled # {}
  /\ \A task_id \in lastStep.scheduled : Eligible(task_id)

\* The next occurrence of a daily or weekly task, and the local midnight of
\* the day an instant falls on, written out from their definitions.
NextOccurrenceOf(task) ==
  task.next_due_date
    + task.frequency * (IF task.frequency_type = FREQUENCY_WEEKLY THEN 7 * DAY ELSE DAY)

LocalMidnight(instant) == (instant \div DAY) * DAY

TargetOf(task) ==
  LET target == LocalMidnight(NextOccurrenceOf(task))
  IN IF target <= now THEN now + 5 ELSE target

\* C18: when an evaluation finds a task eligible (and no completion call for
\* it is in flight): if an auto-completion is pending for it within 60
\* seconds of the new target, the task's pending timers are left as they
\* are; otherwise every other pending timer of the task is cancelled and
\* exactly one timer, at the new target, is pending afterwards.
C18_NearScheduleKeptElseReplaced ==
  [][ lastStep'.kind = "evaluated" =>
        \A task_id \in DOMAIN tasks_by_id' :
           (Eligible(task_id)' /\ \A e \in execs : e.task # task_id) =>
              LET target == TargetOf(tasks_by_id'[task_id])
              IN IF \E tm \in AutoTimersOf(task_id) : Abs(tm.at - target) < 60
                 THEN AutoTimersOf(task_id)' = AutoTimersOf(task_id)
                 ELSE /\ Cardinality(AutoTimersOf(task_id)') = 1
                      /\ \A tm \in AutoTimersOf(task_id)' : tm.at = target ]_vars

\* C24: a step taken with the auto-complete flag off (a refresh processed by
\* the listener, the initial processing after a reload, or any other step)
\* registers no auto-completion timer and adds or replaces no entry of the
\* manager's map or of the module-level map.
C24_DisabledSchedulesNothing ==
  [][ ~autoEnabled' =>
        /\ NewAutoTimers = {}
        /\ DOMAIN _scheduled_tasks' \subseteq DOMAIN _scheduled_tasks
        /\ \A task_id \in DOMAIN _auto_completion_schedules' :
              /\ task_id \in DOMAIN _auto_completion_schedules
              /\ _auto_completion_schedules'[task_id] =
                   _auto_completion_schedules[task_id] ]_vars

\* C24 witness: with the flag off a refresh was processed whose snapshot
\* holds an active, recurring, past-due task, and nothing is scheduled.
C24_Witness ==
  /\ lastStep.kind = "disabled"
  /\ ~autoEnabled
  /\ PastDueRecurrent(tasks_by_id) # {}
  /\ timers = {}
  /\ _scheduled_tasks = NoTasks
  /\ _auto_completion_schedules = NoTasks

\* The auto-completion timers the current manager registered for a task and
\* that are still pending.
PendingOwnTimers(task_id) == {tm \in AutoTimersOf(task_id) : tm.owner = mgrGen}

\* C22 (auto-completion part): cancelling a task's schedule a second time
\* changes nothing, and cancelling when the current manager has no pending
\* timer for the task (never scheduled, already cancelled, already fired)
\* leaves the schedule maps and the timers exactly as they were.
C22_CancelIsNoOpWhenNothingPending ==
  \A task_id \in DOMAIN server \cup DOMAIN _auto_completion_schedules :
     LET once == _cancel_schedule(AutoState, task_id)
     IN /\ _cancel_schedule(once, task_id) = once
        /\ PendingOwnTimers(task_id) = {} => once = AutoState

\* ------------------------------------------------------------------------
\* List classifiers: DonetickDateFilteredTasksList, DonetickTimeOfDayTasksList
\* ------------------------------------------------------------------------
MEMBER == 1
BUFFER == 1
DEFAULT_UPCOMING_DAYS == 7
DEFAULT_REFRESH_INTERVAL == 900
MORNING_CUTOFF_MINUTES == 12 * 60
AFTERNOON_CUTOFF_MINUTES == 17 * 60
ALL_DAY_SECOND == 23 * 3600 + 59 * 60

\* config_entry.data.get(CONF_..._CUTOFF, DEFAULT_..._CUTOFF), parsed to
\* minutes: the two values are taken as they are stored.
_get_cutoff_times(c) ==
  [morning_minutes |->
     IF "morning_cutoff" \in DOMAIN c THEN c.morning_cutoff ELSE MORNING_CUTOFF_MINUTES,
   afternoon_minutes |->
     IF "afternoon_cutoff" \in DOMAIN c THEN c.afternoon_cutoff
     ELSE AFTERNOON_CUTOFF_MINUTES]

_get_local_today_start(t) == t - (t % DAY)
\* 23:59:59.999999 of today, in whole seconds
_get_local_today_end(t) == _get_local_today_start(t) + DAY - 1

\* metadata.get("unit", "days")
UnitOf(task) ==
  IF task.frequency_metadata.unit = "" THEN "days" ELSE task.frequency_metadata.unit

_is_frequent_recurrence(task) ==
  IF task.frequency_type \in {FREQUENCY_ONCE, FREQUENCY_NO_REPEAT} THEN FALSE
  ELSE IF task.frequency_type = FREQUENCY_DAILY THEN TRUE
  ELSE IF task.frequency_type = FREQUENCY_INTERVAL
       THEN UnitOf(task) = "days" /\ task.frequency <= 4
  ELSE FALSE

MinNum(a, b) == IF a <= b THEN a ELSE b

\* Mutant: the advance window is the whole period, not half of it.
_get_recurrence_advance_days_NoHalving(task) ==
  IF task.frequency_type \in {FREQUENCY_ONCE, FREQUENCY_NO_REPEAT} THEN NoDue
  ELSE IF task.frequency_type \notin {FREQUENCY_DAILY, FREQUENCY_WEEKLY, FREQUENCY_INTERVAL}
       THEN 7
  ELSE LET f == IF task.frequency # 0 THEN task.frequency ELSE 1
           recurrence_days ==
             CASE task.frequency_type = FREQUENCY_DAILY -> f
               [] task.frequency_type = FREQUENCY_WEEKLY -> f * 7
               [] UnitOf(task) = "weeks" -> f * 7
               [] UnitOf(task) = "months" -> f * 30
               [] UnitOf(task) = "years" -> f * 365
               [] OTHER -> f
       IN IF recurrence_days <= 0 THEN 7 ELSE MinNum(recurrence_days, 7)

\* NoDue stands for None (always show).
_get_recurrence_advance_days(task) ==
  IF task.frequency_type \in {FREQUENCY_ONCE, FREQUENCY_NO_REPEAT} THEN NoDue
  ELSE IF task.frequency_type \notin {FREQUENCY_DAILY, FREQUENCY_WEEKLY, FREQUENCY_INTERVAL}
       THEN 7
  ELSE LET f == IF task.frequency # 0 THEN task.frequency ELSE 1
           recurrence_days ==
             CASE task.frequency_type = FREQUENCY_DAILY -> f
               [] task.frequency_type = FREQUENCY_WEEKLY -> f * 7
               [] UnitOf(task) = "weeks" -> f * 7
               [] UnitOf(task) = "months" -> f * 30
               [] UnitOf(task) = "years" -> f * 365
               [] OTHER -> f
       IN IF recurrence_days <= 0 THEN 7 ELSE MinNum(recurrence_days \div 2, 7)

\* The assignee test shared by _filter_tasks and _calculate_next_transition_time.
ForMember(task) == task.assigned_to = MEMBER

\* Mutant: a task due exactly now already counts as past due.
DateFilterTask_DueNowIsPast(list_type, task, t) ==
  LET today_start == _get_local_today_start(t)
      today_end == _get_local_today_end(t)
      upcoming_cutoff == today_end + DEFAULT_UPCOMING_DAYS * DAY
      task_due == task.next_due_date
      advance_days == _get_recurrence_advance_days(task)
  IN /\ task.is_active
     /\ ForMember(task)
     /\ IF list_type = "no_due_date" THEN task_due = NoDue
        ELSE /\ task_due # NoDue
             /\ CASE list_type = "past_due" -> task_due <= t
                  [] list_type = "due_today" ->
                       today_start <= task_due /\ task_due <= today_end /\ task_due >= t
                  [] list_type = "upcoming" ->
                       /\ task_due > today_end
                       /\ task_due <= upcoming_cutoff
                       /\ ~_is_frequent_recurrence(task)
                       /\ (advance_days = NoDue \/ task_due <= t + advance_days * DAY)
                  [] OTHER -> FALSE

\* Mutant: the due-today list keeps a task whose due instant has passed.
DateFilterTask_DueTodayKeepsPast(list_type, task, t) ==
  LET today_start == _get_local_today_start(t)
      today_end == _get_local_today_end(t)
      upcoming_cutoff == today_end + DEFAULT_UPCOMING_DAYS * DAY
      task_due == task.next_due_date
      advance_days == _get_recurrence_advance_days(task)
  IN /\ task.is_active
     /\ ForMember(task)
     /\ IF list_type = "no_due_date" THEN task_due = NoDue
        ELSE /\ task_due # NoDue
             /\ CASE list_type = "past_due" -> task_due < t
                  [] list_type = "due_today" ->
                       today_start <= task_due /\ task_due <= today_end
                  [] list_type = "upcoming" ->
                       /\ task_due > today_end
                       /\ task_due <= upcoming_cutoff
                       /\ ~_is_frequent_recurrence(task)
                       /\ (advance_days = NoDue \/ task_due <= t + advance_days * DAY)
                  [] OTHER -> FALSE

\* DonetickDateFilteredTasksList._filter_tasks, for one task at local time t.
DateFilterTask(list_type, task, t) ==
  LET today_start == _get_local_today_start(t)
      today_end == _get_local_today_end(t)
      upcoming_cutoff == today_end + DEFAULT_UPCOMING_DAYS * DAY
      task_due == task.next_due_date
      advance_days == _get_recurrence_advance_days(task)
  IN /\ task.is_active
     /\ ForMember(task)
     /\ IF list_type = "no_due_date" THEN task_due = NoDue
        ELSE /\ task_due # NoDue
             /\ CASE list_type = "past_due" -> task_due < t
                  [] list_type = "due_today" ->
                       today_start <= task_due /\ task_due <= today_end /\ task_due >= t
                  [] list_type = "upcoming" ->
                       /\ task_due > today_end
                       /\ task_due <= upcoming_cutoff
                       /\ ~_is_frequent_recurrence(task)
                       /\ (advance_days = NoDue \/ task_due <= t + advance_days * DAY)
                  [] OTHER -> FALSE

\* DonetickDateFilteredWithUnassignedList._filter_tasks, for one task at local
\* time t: the same date tests, the assignee test replaced by "assigned to
\* the member or to nobody".
WithUnassignedFilterTask(list_type, task, t) ==
  /\ ~(task.assigned_to # Unassigned /\ task.assigned_to # MEMBER)
  /\ DateFilterTask(list_type, [task EXCEPT !.assigned_to = MEMBER], t)

\* Mutant: a task due exactly at the morning cutoff is still a morning task.
TimeOfDayFilterTask_CutoffInMorning(c, task, t) ==
  LET list_type == c.list_type
      morning_minutes == _get_cutoff_times(c).morning_minutes
      afternoon_minutes == _get_cutoff_times(c).afternoon_minutes
      today_start == _get_local_today_start(t)
      today_end == _get_local_today_end(t)
      task_due == task.next_due_date
      task_time_minutes == (task_due % DAY) \div 60
      is_all_day == (task_due % DAY) = ALL_DAY_SECOND
      is_past_due == task_due < t
  IN /\ task.is_active
     /\ ForMember(task)
     /\ task_due # NoDue
     /\ today_start <= task_due /\ task_due <= today_end
     /\ CASE list_type = "past_due" -> is_past_due
          [] list_type = "all_day" -> is_all_day
          [] list_type = "morning" ->
               ~is_all_day /\ ~is_past_due /\ task_time_minutes <= morning_minutes
          [] list_type = "afternoon" ->
               /\ ~is_all_day /\ ~is_past_due
               /\ morning_minutes <= task_time_minutes
               /\ task_time_minutes < afternoon_minutes
          [] list_type = "evening" ->
               ~is_all_day /\ ~is_past_due /\ task_time_minutes >= afternoon_minutes
          [] OTHER -> FALSE

\* DonetickTimeOfDayTasksList._filter_tasks, for one task at local time t.
TimeOfDayFilterTask(c, task, t) ==
  LET list_type == c.list_type
      morning_minutes == _get_cutoff_times(c).morning_minutes
      afternoon_minutes == _get_cutoff_times(c).afternoon_minutes
      today_start == _get_local_today_start(t)
      today_end == _get_local_today_end(t)
      task_due == task.next_due_date
      task_time_minutes == (task_due % DAY) \div 60
      is_all_day == (task_due % DAY) = ALL_DAY_SECOND
      is_past_due == task_due < t
  IN /\ task.is_active
     /\ ForMember(task)
     /\ task_due # NoDue
     /\ today_start <= task_due /\ task_due <= today_end
     /\ CASE list_type = "past_due" -> is_past_due
          [] list_type = "all_day" -> is_all_day
          [] list_type = "morning" ->
               ~is_all_day /\ ~is_past_due /\ task_time_minutes < morning_minutes
          [] list_type = "afternoon" ->
               /\ ~is_all_day /\ ~is_past_due
               /\ morning_minutes <= task_time_minutes
               /\ task_time_minutes < afternoon_minutes
          [] list_type = "evening" ->
               ~is_all_day /\ ~is_past_due /\ task_time_minutes >= afternoon_minutes
          [] OTHER -> FALSE

\* {task.id for task in self._filter_tasks(tasks)} of classifier c at time t.
_filter_tasks(c, tasks, t) ==
  {i \in DOMAIN tasks :
     IF c.cls = "DateFiltered" THEN DateFilterTask(c.list_type, tasks[i], t)
     ELSE TimeOfDayFilterTask(c, tasks[i], t)}

\* The next_times DonetickDateFilteredTasksList collects for one task.
DateNextTimes(list_type, task, t) ==
  LET today_start == _get_local_today_start(t)
      today_end == _get_local_today_end(t)
      task_due == task.next_due_date
      task_midnight == _get_local_today_start(task_due)
      due_today_now == today_start <= task_due /\ task_due <= today_end /\ task_due > t
  IN IF ~task.is_active \/ task_due = NoDue \/ ~ForMember(task) THEN {}
     ELSE CASE list_type = "past_due" ->
                 IF due_today_now THEN {task_due + BUFFER} ELSE {}
            [] list_type = "due_today" ->
                 IF task_due > today_end
                 THEN (IF task_midnight > t THEN {task_midnight + BUFFER} ELSE {})
                 ELSE IF due_today_now THEN {task_due + BUFFER} ELSE {}
            [] list_type = "upcoming" ->
                 IF task_due > today_end /\ task_midnight > t
                 THEN {task_midnight + BUFFER} ELSE {}
            [] OTHER -> {}

\* Mutant: the cutoffs are collected whether or not they are still ahead.
TimeOfDayNextTimes_CutoffsAlways(c, tasks, t) ==
  LET today_start == _get_local_today_start(t)
      today_end == _get_local_today_end(t)
      morning_time == today_start + _get_cutoff_times(c).morning_minutes * 60
      afternoon_time == today_start + _get_cutoff_times(c).afternoon_minutes * 60
  IN {tasks[i].next_due_date + BUFFER : i \in
        {j \in DOMAIN tasks :
           /\ tasks[j].is_active
           /\ tasks[j].next_due_date # NoDue
           /\ ForMember(tasks[j])
           /\ today_start <= tasks[j].next_due_date
           /\ tasks[j].next_due_date <= today_end
           /\ tasks[j].next_due_date > t}}
       \cup {morning_time + BUFFER}
       \cup {afternoon_time + BUFFER}

\* The next_times DonetickTimeOfDayTasksList collects: today's due instants
\* still ahead and today's cutoffs still ahead.
TimeOfDayNextTimes(c, tasks, t) ==
  LET today_start == _get_local_today_start(t)
      today_end == _get_local_today_end(t)
      morning_time == today_start + _get_cutoff_times(c).morning_minutes * 60
      afternoon_time == today_start + _get_cutoff_times(c).afternoon_minutes * 60
  IN {tasks[i].next_due_date + BUFFER : i \in
        {j \in DOMAIN tasks :
           /\ tasks[j].is_active
           /\ tasks[j].next_due_date # NoDue
           /\ ForMember(tasks[j])
           /\ today_start <= tasks[j].next_due_date
           /\ tasks[j].next_due_date <= today_end
           /\ tasks[j].next_due_date > t}}
       \cup (IF morning_time > t THEN {morning_time + BUFFER} ELSE {})
       \cup (IF afternoon_time > t THEN {afternoon_time + BUFFER} ELSE {})

\* min(next_times), NoWake standing for None.
_calculate_next_transition_time(c, tasks, t) ==
  LET next_times ==
        IF c.cls = "DateFiltered"
        THEN UNION {DateNextTimes(c.list_type, tasks[i], t) : i \in DOMAIN tasks}
        ELSE TimeOfDayNextTimes(c, tasks, t)
  IN IF next_times = {} THEN NoWake ELSE MinOf(next_times)

\* The list entities that were added to Home Assistant.
Entities == DOMAIN _scheduled_transition_cancel

\* The classifiers' fields and the registered timers, threaded through the
\* synchronous methods as one record.
ListState ==
  [timers |-> timers, cancel |-> _scheduled_transition_cancel,
   ids |-> _cached_task_ids, ver |-> _cached_data_version, memb |-> memberAtSchedule]

SetListFields(s) ==
  /\ _scheduled_transition_cancel' = s.cancel
  /\ _cached_task_ids' = s.ids
  /\ _cached_data_version' = s.ver
  /\ memberAtSchedule' = s.memb

SetListState(s) ==
  /\ timers' = s.timers
  /\ SetListFields(s)

TransUsedTids(s) ==
  {tm.tid : tm \in s.timers} \cup {s.cancel[c].tid : c \in DOMAIN s.cancel}

\* async_track_point_in_time(hass, self._handle_transition_callback, when)
TransitionTimer(s, c, when) ==
  [tid |-> MinOf({n \in 1..(Cardinality(TransUsedTids(s)) + 1) : n \notin TransUsedTids(s)}),
   purpose |-> "transition", key |-> c, at |-> when, owner |-> 0, occ |-> NoDue]

\* Mutant: the pending wake-up is not cancelled before the next is registered.
_schedule_next_transition_NoCancel(s, c, tasks, t) ==
  LET next_transition == _calculate_next_transition_time(c, tasks, t)
      s2 == [s EXCEPT !.memb[c] = _filter_tasks(c, tasks, t)]
  IN IF next_transition = NoWake THEN s2
     ELSE LET tm == TransitionTimer(s, c, next_transition)
          IN [s2 EXCEPT !.timers = @ \cup {tm}, !.cancel[c] = tm]

\* Mutant: a pending wake-up is kept instead of being replaced.
_schedule_next_transition_KeepsPending(s, c, tasks, t) ==
  LET next_transition == _calculate_next_transition_time(c, tasks, t)
      s2 == [s EXCEPT !.memb[c] = _filter_tasks(c, tasks, t)]
  IN IF next_transition = NoWake \/ s.cancel[c] \in s.timers THEN s2
     ELSE LET tm == TransitionTimer(s, c, next_transition)
          IN [s2 EXCEPT !.timers = @ \cup {tm}, !.cancel[c] = tm]

\* _schedule_next_transition of both classifier classes (memb is history:
\* the members at the instant the wake-up was computed).
_schedule_next_transition(s, c, tasks, t) ==
  LET s1 == IF s.cancel[c] # NoHandle
            THEN [s EXCEPT !.timers = @ \ {s.cancel[c]}, !.cancel[c] = NoHandle]
            ELSE s
      next_transition == _calculate_next_transition_time(c, tasks, t)
      s2 == [s1 EXCEPT !.memb[c] = _filter_tasks(c, tasks, t)]
  IN IF next_transition = NoWake THEN s2
     ELSE LET tm == TransitionTimer(s1, c, next_transition)
          IN [s2 EXCEPT !.timers = @ \cup {tm}, !.cancel[c] = tm]

\* The todo_items property: the caches are rebuilt, and the wake-up is
\* re-scheduled, when the version or the members changed.
todo_items(s, c, tasks, version, t) ==
  LET current_task_ids == _filter_tasks(c, tasks, t)
      server_changed == s.ver[c] # version
      time_migration == current_task_ids # s.ids[c]
  IN IF server_changed \/ time_migration
     THEN _schedule_next_transition(
            [s EXCEPT !.ids[c] = current_task_ids, !.ver[c] = version], c, tasks, t)
     ELSE s

\* _handle_coordinator_update: the base class writes the entity state (which
\* reads todo_items), then the wake-up is re-scheduled.
_handle_coordinator_update(s, c, tasks, version, t) ==
  _schedule_next_transition(todo_items(s, c, tasks, version, t), c, tasks, t)

\* Mutant: the callback does not write the entity state.
_handle_transition_callback_NoStateWrite(s, c, tasks, version, t) ==
  _schedule_next_transition(s, c, tasks, t)

\* _handle_transition_callback after the timer fired: with notifications
\* disabled the past-due check returns at once; the state is written (which
\* reads todo_items) and the next wake-up is scheduled.
_handle_transition_callback(s, c, tasks, version, t) ==
  _schedule_next_transition(todo_items(s, c, tasks, version, t), c, tasks, t)

\* The coordinator calls every listener in turn.
RECURSIVE UpdateListeners(_, _, _, _, _)
UpdateListeners(s, cs, tasks, version, t) ==
  IF cs = {} THEN s
  ELSE LET c == CHOOSE x \in cs : TRUE
       IN UpdateListeners(_handle_coordinator_update(s, c, tasks, version, t),
                          cs \ {c}, tasks, version, t)

\* Some classifier had a live wake-up that the step replaced by a new one.
ReplacedWakeUp(s) ==
  \E c \in Entities :
     /\ _scheduled_transition_cancel[c] \in timers
     /\ s.cancel[c] # NoHandle

\* ------------------------------------------------------------------------
\* NotificationStore, NotificationManager and the past-due check
\* ------------------------------------------------------------------------
NOTIFICATION_REMINDER_INTERVAL == 86400
MaxEvals == 2
MaxNotifyPoll == 2

\* due_date.isoformat() if due_date else "": the stored text of a due date.
isoformat(due) == [iso |-> due]

\* The store, the reminder map, the timers and the suspended checks, threaded
\* through the synchronous helpers as one record.
NotifyState ==
  [store |-> notifyStore, rem |-> _notification_reminders, timers |-> timers,
   evals |-> evals]

SetNotifyState(n) ==
  /\ notifyStore' = n.store
  /\ _notification_reminders' = n.rem
  /\ evals' = n.evals

was_notified(store, task) ==
  /\ task.id \in DOMAIN store
  /\ store[task.id] = isoformat(task.next_due_date)

mark_notified(store, task) == Put(store, task.id, isoformat(task.next_due_date))

clear_task(store, task_id) == Remove(store, task_id)

\* Mutant: the reminder is dropped from the map but its timer is not cancelled.
cancel_reminder_KeepsTimer(n, task_id) ==
  IF task_id \in DOMAIN n.rem
  THEN [n EXCEPT !.rem = Remove(@, task_id)]
  ELSE n

cancel_reminder(n, task_id) ==
  IF task_id \in DOMAIN n.rem
  THEN [n EXCEPT !.timers = @ \ {n.rem[task_id].cancel}, !.rem = Remove(@, task_id)]
  ELSE n

ReminderUsedTids(n) ==
  {tm.tid : tm \in n.timers} \cup {n.rem[i].cancel.tid : i \in DOMAIN n.rem}

schedule_reminder(n, task, reminder_time) ==
  IF task.id \in DOMAIN n.rem /\ n.rem[task.id].when = reminder_time THEN n
  ELSE LET n1 == cancel_reminder(n, task.id)
           cancel ==
             [tid |-> MinOf({k \in 1..(Cardinality(ReminderUsedTids(n1)) + 1) :
                               k \notin ReminderUsedTids(n1)}),
              purpose |-> "reminder", key |-> task.id, at |-> reminder_time,
              owner |-> 0, occ |-> NoDue]
       IN [n1 EXCEPT !.timers = @ \cup {cancel},
                     !.rem = Put(@, task.id, [cancel |-> cancel, when |-> reminder_time])]

\* stale_task_keys of _check_and_notify_past_due_tasks: the tracked task ids
\* that are not in the past-due set at time t.
stale_task_keys(store, tasks, t) ==
  IF notifyEnabled THEN DOMAIN store \ _filter_tasks(PastDueList, tasks, t) ELSE {}

\* Mutant: the task is marked as notified whatever the send returned.
AfterSend_MarksOnFailure(n, task, sent, t) ==
  [(IF sent THEN schedule_reminder(n, task, t + NOTIFICATION_REMINDER_INTERVAL) ELSE n)
     EXCEPT !.store = mark_notified(@, task)]

\* Mutant: a successful send is recorded but no reminder is scheduled.
AfterSend_NoReminder(n, task, sent, t) ==
  IF sent THEN [n EXCEPT !.store = mark_notified(@, task)] ELSE n

\* The `if sent:` block of _check_and_notify_past_due_tasks, run at time t
\* once send_past_due_notification(task) has returned `sent`.
AfterSend(n, task, sent, t) ==
  IF sent
  THEN [schedule_reminder(n, task, t + NOTIFICATION_REMINDER_INTERVAL)
          EXCEPT !.store = mark_notified(@, task)]
  ELSE n

RECURSIVE PruneStale(_, _)
PruneStale(n, stale) ==
  IF stale = {} THEN n
  ELSE LET task_id == MinOf(stale)
       IN PruneStale([cancel_reminder(n, task_id) EXCEPT !.store = clear_task(@, task_id)],
                     stale \ {task_id})

\* The loop of _check_and_notify_past_due_tasks over the tasks still to
\* visit: tasks already notified are skipped; at the first other task the
\* coroutine suspends in `await send_past_due_notification(task)`.
CheckLoop(n, rest, origin) ==
  LET pending == {task \in rest : ~was_notified(n.store, task)}
  IN IF pending = {} THEN n
     ELSE LET cur == CHOOSE task \in pending : \A o \in pending : task.id <= o.id
              used == {e.eid : e \in n.evals}
          IN [n EXCEPT !.evals = @ \cup
                {[eid |-> MinOf({k \in 1..(Cardinality(used) + 1) : k \notin used}),
                  cur |-> cur, rest |-> {task \in rest : task.id > cur.id},
                  origin |-> origin]}]

\* _check_and_notify_past_due_tasks up to its first await.
_check_and_notify_past_due_tasks(n, tasks, t, origin) ==
  IF ~notifyEnabled THEN n
  ELSE LET current_task_ids == _filter_tasks(PastDueList, tasks, t)
           n1 == PruneStale(n, DOMAIN n.store \ current_task_ids)
       IN CheckLoop(n1, {tasks[i] : i \in current_task_ids}, origin)

\* C34: when a poll has returned (without raising), every pending
\* auto-completion timer is for a task of the new snapshot; this includes a
\* poll that returned no task at all.
C34_NoScheduleForAbsentTask ==
  [][ (/\ pollInFlight # NoCall
       /\ pollInFlight' = NoCall
       /\ mgrGen' = mgrGen
       /\ ~async_get_tasks(pollInFlight.resp).raised) =>
        \A tm \in timers' : tm.purpose = "auto" => tm.key \in DOMAIN tasks_by_id' ]_vars

\* C35: every pending auto-completion timer was registered by the current
\* manager (none survives an unload or reload of the entry), and none is
\* pending while the auto-complete flag is off.
C35_NoTimerOutlivesItsManager ==
  \A tm \in timers :
     tm.purpose = "auto" => (tm.owner = mgrGen /\ autoEnabled)

\* C40: while no auto-completion call is in flight, the manager's map and
\* the module-level map have the same keys, and each key stands for exactly
\* one pending timer of that task, the one whose handle the manager holds.
C40_MapsAgreeWithTimers ==
  execs = {} =>
     /\ DOMAIN _scheduled_tasks = DOMAIN _auto_completion_schedules
     /\ \A task_id \in DOMAIN _scheduled_tasks \cup DOMAIN _auto_completion_schedules :
          /\ task_id \in DOMAIN _scheduled_tasks
          /\ AutoTimersOf(task_id) = {_scheduled_tasks[task_id]}

\* ------------------------------------------------------------------------
\* Specification SpecTrans: the classifiers under polls, reads and the clock
\* ------------------------------------------------------------------------
MaxTransTick == 4
TransStart == DAY - 600
DuePast == DAY - 1000
DuePastLater == DAY - 800
DueToday == DAY - 300
DueTomorrow == DAY + 200
DueFar == 8 * DAY + 200
TransTask(id, due, assigned) == MkTask(id, due, TRUE, assigned, FREQUENCY_ONCE, 1)

TransSnapshots ==
  {(1 :> TransTask(1, due, MEMBER)) : due \in {DuePast, DueToday, DueTomorrow, DueFar}}
    \cup {(1 :> TransTask(1, DueToday, MEMBER)) @@ (2 :> TransTask(2, DueTomorrow, MEMBER)),
          (1 :> TransTask(1, DueToday, 2))}

\* A refresh of the coordinator that fetched `snap`: _async_update_data, then
\* every listener; the past-due list also starts its notification check.
CoordinatorUpdate(snap) ==
  /\ snap = tasks_by_id \/ data_version < MaxVersion
  /\ Cardinality(evals) < MaxEvals
  /\ _async_update_data(async_get_tasks(OkResp(snap)))
  /\ server' = snap
  /\ LET s == UpdateListeners(ListState, Entities, tasks_by_id', data_version', now)
         n == _check_and_notify_past_due_tasks(
                [NotifyState EXCEPT !.timers = s.timers], tasks_by_id', now, "update")
     IN /\ SetListFields(s)
        /\ SetNotifyState(n)
        /\ timers' = n.timers
        /\ lastStep' = [kind |-> IF ReplacedWakeUp(s) THEN "replaced" ELSE "other",
                        check |-> TRUE,
                        stale |-> stale_task_keys(notifyStore, tasks_by_id', now),
                        bumped |-> data_version' # data_version]
  /\ lastPollAt' = now
  /\ UNCHANGED <<pollHist, clockVars, pollInFlight, execs,
                 _scheduled_tasks, _auto_completion_schedules, autoEnabled, mgrGen,
                 callCount, notifyEnabled, memberStores, sentCount, failedSends, reminderCalls,
                 guardVars, removed>>

TransCoordinatorUpdate ==
  /\ \E snap \in TransSnapshots : CoordinatorUpdate(snap)
  /\ UNCHANGED edits

\* Something reads the list's items (the frontend, a todo.get_items call).
TransReadItems ==
  /\ \E c \in Entities :
       LET s == todo_items(ListState, c, tasks_by_id, data_version, now)
       IN /\ _cached_data_version[c] # 0 - 1
          /\ SetListState(s)
          /\ lastStep' = [kind |-> IF ReplacedWakeUp(s) THEN "replaced" ELSE "other",
                          check |-> FALSE]
  /\ UNCHANGED <<coordVars, pollHist, clockVars, server, edits, pollInFlight, execs,
                 _scheduled_tasks, _auto_completion_schedules, autoEnabled, mgrGen,
                 callCount, lastPollAt, notifyVars, guardVars, removed>>

\* A transition wake-up fires: _handle_transition_callback.  The past-due
\* list first awaits its notification check; when that suspends in a send,
\* the rest of the callback runs once the check has finished.
TransitionFire ==
  /\ \E tm \in timers :
       /\ tm.purpose = "transition"
       /\ tm.at <= now
       /\ (tm.key = PastDueList /\ notifyEnabled) => Cardinality(evals) < MaxEvals
       /\ LET s0 == [ListState EXCEPT !.timers = @ \ {tm}]
              n == IF tm.key = PastDueList
                   THEN _check_and_notify_past_due_tasks(
                          [NotifyState EXCEPT !.timers = s0.timers],
                          tasks_by_id, now, "transition")
                   ELSE [NotifyState EXCEPT !.timers = s0.timers]
              s1 == [s0 EXCEPT !.timers = n.timers]
              s2 == IF n.evals # evals THEN s1
                    ELSE _handle_transition_callback(s1, tm.key, tasks_by_id,
                                                     data_version, now)
          IN /\ SetListState(s2)
             /\ SetNotifyState(n)
             /\ lastStep' = [kind |-> "fired", check |-> tm.key = PastDueList,
                             stale |-> IF tm.key = PastDueList
                                       THEN stale_task_keys(notifyStore, tasks_by_id, now)
                                       ELSE {},
                             key |-> tm.key]
  /\ UNCHANGED <<coordVars, pollHist, clockVars, server, edits, pollInFlight, execs,
                 _scheduled_tasks, _auto_completion_schedules, autoEnabled, mgrGen,
                 callCount, lastPollAt, notifyEnabled, memberStores, sentCount, failedSends,
                 reminderCalls, guardVars, removed>>

\* The instants at which something can change for the classifiers.
TransTickTargets ==
  {tm.at : tm \in timers}
    \cup {tasks_by_id[i].next_due_date : i \in DOMAIN tasks_by_id}
    \cup {tasks_by_id[i].next_due_date + BUFFER : i \in DOMAIN tasks_by_id}
    \cup {_get_local_today_start(now) + DAY, _get_local_today_start(now) + DAY + BUFFER}
    \cup {lastPollAt + DEFAULT_REFRESH_INTERVAL}

\* The clock advances; it passes neither a live timer nor the instant the
\* coordinator's next periodic refresh is due.
TransTick ==
  /\ ticks < MaxTransTick
  /\ \E t \in TransTickTargets :
       /\ t > now
       /\ TimersAllowClock(t)
       /\ t <= lastPollAt + DEFAULT_REFRESH_INTERVAL
       /\ now' = t
  /\ ticks' = ticks + 1
  /\ lastStep' = [kind |-> "other", check |-> FALSE]
  /\ UNCHANGED <<coordVars, pollHist, server, edits, pollInFlight, autoVars,
                 _scheduled_transition_cancel, _cached_task_ids, _cached_data_version,
                 memberAtSchedule, lastPollAt, notifyVars, guardVars, removed>>

\* The variables the classifiers do not touch, as async_setup_entry leaves
\* them once the first refresh has fetched `server`.
InitListsCommon ==
  /\ ticks = 0
  /\ edits = 0
  /\ pollInFlight = NoCall
  /\ tasks_by_id = server
  /\ task_hashes = [i \in DOMAIN server |-> _hash_task(server[i])]
  /\ data_version = 1
  /\ pollResult = "none"
  /\ prevTasks = NoTasks
  /\ prevVersion = 0
  /\ lastResp = OkResp(NoTasks)
  /\ execs = {}
  /\ _scheduled_tasks = NoTasks
  /\ _auto_completion_schedules = NoTasks
  /\ autoEnabled = FALSE
  /\ mgrGen = 0
  /\ callCount = NoTasks
  /\ lastPollAt = now
  /\ removed = {}
  /\ InitGuard
  /\ lastStep = [kind |-> "other", check |-> FALSE]

\* The fields of the list entities cs right after construction.
NewLists(cs) ==
  [timers |-> {}, cancel |-> [c \in cs |-> NoHandle],
   ids |-> [c \in cs |-> {}],
   ver |-> [c \in cs |-> 0 - 1],
   memb |-> [c \in cs |-> {}]]

\* The state async_setup_entry leaves with notifications disabled: every
\* list entity was added (async_added_to_hass schedules its wake-up) and
\* wrote its first state.
InitTrans ==
  /\ now = TransStart
  /\ server \in TransSnapshots
  /\ InitListsCommon
  /\ LET s == UpdateListeners(NewLists(Classifiers), Classifiers, server, 1, TransStart)
     IN /\ timers = s.timers
        /\ _scheduled_transition_cancel = s.cancel
        /\ _cached_task_ids = s.ids
        /\ _cached_data_version = s.ver
        /\ memberAtSchedule = s.memb
  /\ InitNotifications

NextTrans ==
  \/ TransCoordinatorUpdate
  \/ TransReadItems
  \/ TransitionFire
  \/ TransTick

SpecTrans == InitTrans /\ [][NextTrans]_vars

\* The wake-up classifier c holds registered in the next state was
\* registered by this step: its handle changed, or c's callback ran.
RegisteredNow(c) ==
  /\ _scheduled_transition_cancel'[c] \in timers'
  /\ \/ _scheduled_transition_cancel'[c] # _scheduled_transition_cancel[c]
     \/ lastStep'.kind = "fired" /\ lastStep'.key = c

\* C39: a wake-up a classifier registers is strictly later than the instant
\* of its registration, and the one a firing callback registers is strictly
\* later than the wake-up that fired.
C39_WakeUpsStrictlyLater ==
  [][\A c \in Entities :
       RegisteredNow(c) =>
         /\ _scheduled_transition_cancel'[c].at > now'
         /\ (lastStep'.kind = "fired" /\ lastStep'.key = c) =>
              \A fired \in timers \ timers' :
                 (fired.purpose = "transition" /\ fired.key = c) =>
                    _scheduled_transition_cancel'[c].at > fired.at]_vars

\* C39 witness: a callback has just run at the instant of its wake-up and the
\* classifier holds its next wake-up, later than now.
C39_Witness ==
  /\ lastStep.kind = "fired"
  /\ _scheduled_transition_cancel[lastStep.key] \in timers
  /\ _scheduled_transition_cancel[lastStep.key].at > now

\* ------------------------------------------------------------------------
\* Specification SpecNotify: the same lists with notifications enabled
\* ------------------------------------------------------------------------
NotifySnapshots ==
  {(1 :> TransTask(1, due, MEMBER)) : due \in {DuePast, DuePastLater, DueToday}}
    \cup {(1 :> TransTask(1, DuePast, MEMBER)) @@ (2 :> TransTask(2, DuePastLater, MEMBER))}

\* A refresh in this specification; `edits` counts the refreshes.
NotifyCoordinatorUpdate ==
  /\ edits < MaxNotifyPoll
  /\ edits' = edits + 1
  /\ \E snap \in NotifySnapshots : CoordinatorUpdate(snap)

\* The notify service call of a suspended check returns (sent) or raises
\* (not sent); the check goes on to its next await or to its end, and what
\* awaited the check continues.  async_write_ha_state belongs to the entity
\* base class of Home Assistant: on an entity that was removed meanwhile it
\* either returns without writing or raises, which ends the callback there.
NotifySendReturns ==
  /\ \E e \in evals, sent \in BOOLEAN,
        write_raises \in IF PastDueList \in removed THEN BOOLEAN ELSE {FALSE} :
       LET n0 == [NotifyState EXCEPT !.evals = @ \ {e}]
           n1 == AfterSend(n0, e.cur, sent, now)
           n2 == CheckLoop(n1, e.rest, e.origin)
           s0 == [ListState EXCEPT !.timers = n2.timers]
           s1 == IF n2.evals # n0.evals THEN s0
                 ELSE IF e.origin = "startup"
                      THEN todo_items(
                             _schedule_next_transition(s0, PastDueList, tasks_by_id, now),
                             PastDueList, tasks_by_id, data_version, now)
                 ELSE IF e.origin = "transition" /\ ~write_raises
                      THEN _handle_transition_callback(s0, PastDueList, tasks_by_id,
                                                       data_version, now)
                 ELSE s0
           occ == <<e.cur.id, e.cur.next_due_date>>
       IN /\ SetListState(s1)
          /\ SetNotifyState(n2)
          /\ sentCount' = IF sent THEN Put(sentCount, occ, Count(sentCount, occ) + 1)
                          ELSE sentCount
          /\ failedSends' = IF sent THEN failedSends ELSE failedSends \cup {occ}
          /\ lastStep' = [kind |-> IF sent THEN "sent" ELSE "send_failed",
                          check |-> FALSE, task |-> e.cur]
  /\ UNCHANGED <<coordVars, pollHist, clockVars, server, edits, pollInFlight, execs,
                 _scheduled_tasks, _auto_completion_schedules, autoEnabled, mgrGen,
                 callCount, lastPollAt, notifyEnabled, memberStores, reminderCalls,
                 guardVars, removed>>

\* The state while the past-due list is being added: the store is loaded
\* (nothing was notified yet) and the startup check has run to its first
\* await, or to its end.  The other lists share no state with the
\* notification machinery and are left out of this specification.
InitNotify ==
  /\ now = TransStart
  /\ server \in NotifySnapshots
  /\ InitListsCommon
  /\ notifyEnabled = TRUE
  /\ InitMemberStores
  /\ sentCount = NoTasks
  /\ failedSends = {}
  /\ reminderCalls = {}
  /\ LET s0 == NewLists({PastDueList})
         n == _check_and_notify_past_due_tasks(
                [store |-> NoTasks, rem |-> NoTasks, timers |-> s0.timers, evals |-> {}],
                server, TransStart, "startup")
         s1 == IF n.evals # {} THEN s0
               ELSE todo_items(_schedule_next_transition(s0, PastDueList, server, TransStart),
                               PastDueList, server, 1, TransStart)
     IN /\ timers = s1.timers
        /\ _scheduled_transition_cancel = s1.cancel
        /\ _cached_task_ids = s1.ids
        /\ _cached_data_version = s1.ver
        /\ memberAtSchedule = s1.memb
        /\ notifyStore = n.store
        /\ _notification_reminders = n.rem
        /\ evals = n.evals

NextNotify ==
  \/ NotifyCoordinatorUpdate
  \/ TransReadItems
  \/ TransitionFire
  \/ TransTick
  \/ NotifySendReturns

SpecNotify == InitNotify /\ [][NextNotify]_vars

\* ------------------------------------------------------------------------
\* Claims on the notifications
\* ------------------------------------------------------------------------
\* C1: at most one initial past-due notification is ever sent per
\* (task id, due instant); and a check of the past-due list leaves, for every
\* past-due task whose current due instant was not notified yet, a
\* notification under way.
C1_OneInitialNotificationPerDue ==
  /\ \A occ \in DOMAIN sentCount : sentCount[occ] <= 1
  /\ (notifyEnabled /\ lastStep.check) =>
        \A i \in _filter_tasks(PastDueList, tasks_by_id, now) :
           \/ was_notified(notifyStore, tasks_by_id[i])
           \/ \E e \in evals : tasks_by_id[i] = e.cur \/ tasks_by_id[i] \in e.rest

ReminderTimersOf(task_id) ==
  {tm \in timers : tm.purpose = "reminder" /\ tm.key = task_id}

\* The sends for this (task id, due instant) have all failed so far.
OnlyFailedSends(task) ==
  /\ <<task.id, task.next_due_date>> \in failedSends
  /\ Count(sentCount, <<task.id, task.next_due_date>>) = 0

\* C11: a (task id, due instant) is recorded as notified only if a send for
\* it succeeded, so a task whose sends all failed is not marked; and a check
\* of the past-due list attempts every such task that is still past due again.
C11_FailedSendNotMarkedAndRetried ==
  /\ \A id \in DOMAIN notifyStore :
        \E occ \in DOMAIN sentCount :
           occ[1] = id /\ isoformat(occ[2]) = notifyStore[id] /\ sentCount[occ] >= 1
  /\ (notifyEnabled /\ lastStep.check) =>
        \A i \in _filter_tasks(PastDueList, tasks_by_id, now) :
           OnlyFailedSends(tasks_by_id[i]) =>
              \E e \in evals : tasks_by_id[i] = e.cur \/ tasks_by_id[i] \in e.rest

\* C11 witness: a later check is attempting a task again whose earlier sends
\* all failed and which is still unrecorded.
C11_Witness ==
  /\ lastStep.check
  /\ \E e \in evals :
        /\ e.origin # "startup"
        /\ OnlyFailedSends(e.cur)
        /\ ~was_notified(notifyStore, e.cur)
        /\ e.cur.id \notin DOMAIN notifyStore

\* C13: right after the past-due list's check has pruned, no task id that was
\* tracked in the record but is not in the current past-due set has a record,
\* a reminder entry or a live reminder timer.
C13_StaleRecordsPruned ==
  (notifyEnabled /\ lastStep.check) =>
     \A id \in lastStep.stale :
        /\ id \notin DOMAIN notifyStore
        /\ id \notin DOMAIN _notification_reminders
        /\ ReminderTimersOf(id) = {}

\* C13 witness: a check found a tracked task that left the past-due set.
C13_Witness ==
  /\ notifyEnabled
  /\ lastStep.check
  /\ lastStep.stale # {}

\* C14: when the send for a past-due task returns successfully, the task's
\* current due instant is recorded and a live reminder is registered 24 hours
\* after that moment; when it returns unsuccessfully, the record, the reminder
\* map and the reminder timers are left as they were.
C14_SuccessRecordsAndSchedulesReminder ==
  [][ /\ lastStep'.kind = "sent" =>
           LET task == lastStep'.task
           IN /\ was_notified(notifyStore', task)
              /\ task.id \in DOMAIN _notification_reminders'
              /\ _notification_reminders'[task.id].when = now + 24 * 3600
              /\ _notification_reminders'[task.id].cancel \in timers'
              /\ \A tm \in timers' :
                    (tm.purpose = "reminder" /\ tm.key = task.id) => tm.at = now + 24 * 3600
      /\ lastStep'.kind = "send_failed" =>
           /\ notifyStore' = notifyStore
           /\ _notification_reminders' = _notification_reminders
           /\ {tm \in timers' : tm.purpose = "reminder"}
                = {tm \in timers : tm.purpose = "reminder"} ]_vars

\* C14 witness: a send returned successfully for a task that was not recorded
\* for its due instant, and its reminder is pending.
C14_Witness ==
  /\ lastStep.kind = "sent"
  /\ sentCount[<<lastStep.task.id, lastStep.task.next_due_date>>] = 1
  /\ ReminderTimersOf(lastStep.task.id) # {}

\* ------------------------------------------------------------------------
\* Specification SpecRemind: the reminder chain of a notified past-due task
\* ------------------------------------------------------------------------
MaxRemindPoll == 2
MaxRemindTick == 3
RemindStart == 2 * DAY - 600
RemindAt == RemindStart + 60
DueLater == 10 * DAY + 200

RemindSnapshots ==
  {NoTasks,
   (1 :> TransTask(1, DuePast, MEMBER)),
   (1 :> TransTask(1, DuePastLater, MEMBER)),
   (1 :> TransTask(1, DueLater, MEMBER)),
   (1 :> [TransTask(1, DuePast, MEMBER) EXCEPT !.is_active = FALSE])}

\* A refresh in this specification; `edits` counts the refreshes.
RemindCoordinatorUpdate ==
  /\ edits < MaxRemindPoll
  /\ edits' = edits + 1
  /\ \E snap \in RemindSnapshots : CoordinatorUpdate(snap)

\* reminder_callback up to its await: the entry is dropped from the map and,
\* when the snapshot holds the task and it is active, the reminder is sent.
ReminderFire ==
  /\ \E tm \in timers :
       /\ tm.purpose = "reminder"
       /\ tm.at <= now
       /\ timers' = timers \ {tm}
       /\ _notification_reminders' = Remove(_notification_reminders, tm.key)
       /\ LET sending == /\ DOMAIN tasks_by_id # {}
                         /\ tm.key \in DOMAIN tasks_by_id
                         /\ tasks_by_id[tm.key].is_active
          IN /\ reminderCalls' =
                  IF sending
                  THEN reminderCalls \cup {[task |-> tasks_by_id[tm.key], fired |-> now]}
                  ELSE reminderCalls
             /\ lastStep' = [kind |-> "reminder_fired", check |-> FALSE,
                             task_id |-> tm.key]
  /\ UNCHANGED <<coordVars, pollHist, clockVars, server, edits, pollInFlight, execs,
                 _scheduled_tasks, _auto_completion_schedules, autoEnabled, mgrGen,
                 callCount, transVars, notifyEnabled, memberStores, notifyStore, evals, sentCount,
                 failedSends, guardVars>>

\* The send of a reminder returns (its result is not looked at) and the next
\* reminder is scheduled 24 hours after the instant the callback fired.
ReminderSendReturns ==
  /\ \E r \in reminderCalls :
       LET n == schedule_reminder(NotifyState, r.task,
                                  r.fired + NOTIFICATION_REMINDER_INTERVAL)
       IN /\ reminderCalls' = reminderCalls \ {r}
          /\ timers' = n.timers
          /\ _notification_reminders' = n.rem
          /\ lastStep' = [kind |-> "reminder_sent", check |-> FALSE,
                          task_id |-> r.task.id, fired |-> r.fired]
  /\ UNCHANGED <<coordVars, pollHist, clockVars, server, edits, pollInFlight, execs,
                 _scheduled_tasks, _auto_completion_schedules, autoEnabled, mgrGen,
                 callCount, transVars, notifyEnabled, memberStores, notifyStore, evals, sentCount,
                 failedSends, guardVars>>

\* A periodic refresh at time u that fetches the unchanged snapshot leaves
\* the lists and the notification state as they are.
PeriodicRefreshIdle(u) ==
  /\ UpdateListeners(ListState, Entities, tasks_by_id, data_version, u) = ListState
  /\ _check_and_notify_past_due_tasks(NotifyState, tasks_by_id, u, "update") = NotifyState

\* The clock advances to the next reminder.  Nothing is awaiting a send, and
\* the periodic refreshes that fall into the span change nothing.
RemindTick ==
  /\ ticks < MaxRemindTick
  /\ evals = {}
  /\ reminderCalls = {}
  /\ \E t \in {tm.at : tm \in timers} :
       /\ t > now
       /\ TimersAllowClock(t)
       /\ PeriodicRefreshIdle(now)
       /\ PeriodicRefreshIdle(t)
       /\ now' = t
       /\ lastPollAt' = t
  /\ ticks' = ticks + 1
  /\ lastStep' = [kind |-> "other", check |-> FALSE]
  /\ UNCHANGED <<coordVars, pollHist, server, edits, pollInFlight, autoVars,
                 _scheduled_transition_cancel, _cached_task_ids, _cached_data_version,
                 memberAtSchedule, notifyVars, guardVars, removed>>

\* The state 24 hours (less a minute) after task 1 was notified as past due:
\* its due instant is recorded, its reminder is pending, and every refresh
\* since has fetched the same snapshot.
InitRemind ==
  /\ now = RemindStart
  /\ server = (1 :> TransTask(1, DuePast, MEMBER))
  /\ InitListsCommon
  /\ notifyEnabled = TRUE
  /\ InitMemberStores
  /\ sentCount = (<<1, DuePast>> :> 1)
  /\ failedSends = {}
  /\ reminderCalls = {}
  /\ evals = {}
  /\ LET s == UpdateListeners(NewLists({PastDueList}), {PastDueList}, server, 1, RemindStart)
         n == schedule_reminder(
                [store |-> mark_notified(NoTasks, server[1]), rem |-> NoTasks,
                 timers |-> s.timers, evals |-> {}],
                server[1], RemindAt)
     IN /\ timers = n.timers
        /\ _scheduled_transition_cancel = s.cancel
        /\ _cached_task_ids = s.ids
        /\ _cached_data_version = s.ver
        /\ memberAtSchedule = s.memb
        /\ notifyStore = n.store
        /\ _notification_reminders = n.rem

NextRemind ==
  \/ RemindCoordinatorUpdate
  \/ NotifySendReturns
  \/ ReminderFire
  \/ ReminderSendReturns
  \/ RemindTick

SpecRemind == InitRemind /\ [][NextRemind]_vars

\* The task is in the snapshot, active and past due.
StillPastDue(task_id) ==
  /\ task_id \in DOMAIN tasks_by_id
  /\ tasks_by_id[task_id].is_active
  /\ tasks_by_id[task_id].next_due_date # NoDue
  /\ tasks_by_id[task_id].next_due_date < now

\* C12: when a reminder has fired, a reminder is being sent exactly if the
\* task is still active and past due, and otherwise no reminder remains for
\* the task; when the send of a reminder has returned, the next reminder is
\* pending 24 hours after the instant the reminder fired.
C12_ReminderRechecksTask ==
  /\ lastStep.kind = "reminder_fired" =>
        IF StillPastDue(lastStep.task_id)
        THEN \E r \in reminderCalls : r.task.id = lastStep.task_id /\ r.fired = now
        ELSE /\ \A r \in reminderCalls : r.task.id # lastStep.task_id
             /\ ReminderTimersOf(lastStep.task_id) = {}
             /\ lastStep.task_id \notin DOMAIN _notification_reminders
  /\ lastStep.kind = "reminder_sent" =>
        \E tm \in ReminderTimersOf(lastStep.task_id) :
           tm.at = lastStep.fired + 24 * 3600

\* ------------------------------------------------------------------------
\* Claims on the classifiers
\* ------------------------------------------------------------------------
WakeUpsOf(c) == {tm \in timers : tm.purpose = "transition" /\ tm.key = c}

\* C6: once the clock is more than one second past the due instant of an
\* active task of the member, the wake-ups have moved it: the past-due list
\* shows it and the due-today and upcoming lists no longer do, whatever the
\* calendar day of the due instant.
C6_EntersPastDueAtDueInstant ==
  \A i \in DOMAIN tasks_by_id :
     LET task == tasks_by_id[i]
     IN (/\ task.is_active
         /\ ForMember(task)
         /\ task.next_due_date # NoDue
         /\ now > task.next_due_date + BUFFER)
        => /\ i \in _cached_task_ids[PastDueList]
           /\ i \notin _cached_task_ids[DateList("due_today")]
           /\ i \notin _cached_task_ids[DateList("upcoming")]

\* C7: no classifier's members change by the passage of time before the
\* wake-up it scheduled: whenever its members differ from those it had when
\* it computed the wake-up, that wake-up is due (within the one second buffer).
C7_NoChangeBeforeWakeUp ==
  \A c \in Classifiers :
     _filter_tasks(c, tasks_by_id, now) # memberAtSchedule[c]
       => \E tm \in WakeUpsOf(c) : tm.at <= now + BUFFER

\* C8: every classifier has at most one live transition wake-up, and it is
\* the one its cancel handle refers to.
C8_OneWakeUpPerClassifier ==
  \A c \in Classifiers :
     /\ Cardinality(WakeUpsOf(c)) <= 1
     /\ WakeUpsOf(c) \subseteq {_scheduled_transition_cancel[c]}

\* C8 witness: a step re-scheduled a classifier whose previous wake-up was
\* still pending, and the classifier has a live wake-up.
C8_Witness ==
  /\ lastStep.kind = "replaced"
  /\ \E c \in Classifiers : WakeUpsOf(c) # {}

\* The transition wake-ups of classifier c among the timers tms.
WakeUpsAmong(tms, c) == {tm \in tms : tm.purpose = "transition" /\ tm.key = c}

\* Classifier c's live wake-ups are exactly what _calculate_next_transition_time
\* yields for `tasks` at time t: none, or one wake-up at that instant.
WakeUpIsFor(c, wakeups, tasks, t) ==
  LET w == _calculate_next_transition_time(c, tasks, t)
  IN /\ \A tm \in wakeups : tm.at = w
     /\ w # NoWake => Cardinality(wakeups) = 1
     /\ w = NoWake => wakeups = {}

\* C19: when a classifier's wake-up fires, the snapshot and its version stay
\* as they are, the classifier's members are recomputed for the current
\* instant, and its pending wake-up afterwards is the next one computed at
\* that instant.
C19_FireRecomputesAndReschedules ==
  [][ lastStep'.kind = "fired" =>
        LET c == lastStep'.key
        IN /\ data_version' = data_version
           /\ tasks_by_id' = tasks_by_id
           /\ _cached_task_ids'[c] = _filter_tasks(c, tasks_by_id, now)
           /\ WakeUpIsFor(c, WakeUpsAmong(timers', c), tasks_by_id, now) ]_vars

\* C19 witness: a wake-up fired, the classifier's members changed with it and
\* its next wake-up is pending.
C19_Witness ==
  /\ lastStep.kind = "fired"
  /\ _cached_task_ids[lastStep.key] # {}
  /\ WakeUpsOf(lastStep.key) # {}

\* C20: a refresh that changes the snapshot version leaves every classifier
\* with the wake-up computed from the new snapshot (or none when there is
\* none to compute), and with no other live wake-up.
C20_VersionChangeReschedules ==
  [][ data_version' # data_version =>
        \A c \in Classifiers :
           WakeUpIsFor(c, WakeUpsAmong(timers', c), tasks_by_id', now) ]_vars

\* C20 witness: a refresh changed the version and replaced a wake-up that was
\* pending for another instant.
C20_Witness ==
  /\ lastStep.kind = "replaced"
  /\ lastStep.check
  /\ lastStep.bumped
  /\ \E c \in Classifiers :
        /\ WakeUpsOf(c) # {}
        /\ WakeUpIsFor(c, WakeUpsOf(c), tasks_by_id, now)

\* ------------------------------------------------------------------------
\* Specification SpecRemove: the past-due list entity is removed
\* ------------------------------------------------------------------------
DueSoon == DAY - 100

\* Task 1 becomes past due while the entity lives; task 2 is due later the
\* same day, or not at all.
RemoveSnapshots ==
  {(1 :> TransTask(1, due, MEMBER)) : due \in {DuePast, DueToday}}
    \cup {(1 :> TransTask(1, due, MEMBER)) @@ (2 :> TransTask(2, DueSoon, MEMBER)) :
            due \in {DuePast, DueToday}}

\* The loop of async_will_remove_from_hass over the keys of the store.
RECURSIVE CancelReminders(_, _)
CancelReminders(n, task_ids) ==
  IF task_ids = {} THEN n
  ELSE LET task_id == MinOf(task_ids)
       IN CancelReminders(cancel_reminder(n, task_id), task_ids \ {task_id})

\* async_will_remove_from_hass, first part: the pending wake-up is cancelled
\* and the handle cleared.
RemoveCancelTransition(s, c) ==
  IF s.cancel[c] # NoHandle
  THEN [s EXCEPT !.timers = @ \ {s.cancel[c]}, !.cancel[c] = NoHandle]
  ELSE s

\* The past-due list entity is removed (the config entry is unloaded):
\* async_will_remove_from_hass runs to its end; the coordinator and its
\* listeners are gone with the entry.  The entry is not unloaded while the
\* entity is still being added (async_added_to_hass awaiting its check).
EntityRemoved ==
  /\ PastDueList \notin removed
  /\ \A e \in evals : e.origin # "startup"
  /\ LET s == RemoveCancelTransition(ListState, PastDueList)
         n == CancelReminders([NotifyState EXCEPT !.timers = s.timers], DOMAIN notifyStore)
     IN /\ SetListFields(s)
        /\ SetNotifyState(n)
        /\ timers' = n.timers
  /\ removed' = removed \cup {PastDueList}
  /\ lastStep' = [kind |-> "removed", check |-> FALSE]
  /\ UNCHANGED <<coordVars, pollHist, clockVars, server, edits, pollInFlight, execs,
                 _scheduled_tasks, _auto_completion_schedules, autoEnabled, mgrGen,
                 callCount, lastPollAt, notifyEnabled, memberStores, sentCount, failedSends,
                 reminderCalls, guardVars>>

\* The state once the past-due list was added with notifications enabled.
\* No refresh falls into the few minutes this specification covers.
InitRemove ==
  /\ now = TransStart
  /\ server \in RemoveSnapshots
  /\ InitListsCommon
  /\ notifyEnabled = TRUE
  /\ InitMemberStores
  /\ sentCount = NoTasks
  /\ failedSends = {}
  /\ reminderCalls = {}
  /\ LET s0 == NewLists({PastDueList})
         n == _check_and_notify_past_due_tasks(
                [store |-> NoTasks, rem |-> NoTasks, timers |-> s0.timers, evals |-> {}],
                server, TransStart, "startup")
         s1 == IF n.evals # {} THEN s0
               ELSE todo_items(_schedule_next_transition(s0, PastDueList, server, TransStart),
                               PastDueList, server, 1, TransStart)
     IN /\ timers = s1.timers
        /\ _scheduled_transition_cancel = s1.cancel
        /\ _cached_task_ids = s1.ids
        /\ _cached_data_version = s1.ver
        /\ memberAtSchedule = s1.memb
        /\ notifyStore = n.store
        /\ _notification_reminders = n.rem
        /\ evals = n.evals

NextRemove ==
  \/ TransitionFire
  \/ TransTick
  \/ NotifySendReturns
  \/ EntityRemoved

SpecRemove == InitRemove /\ [][NextRemove]_vars

\* C23: once the removal handler of a list entity has run, the entity has no
\* live transition wake-up, whatever was suspended when it was removed.
C23_NoWakeUpAfterRemoval ==
  \A c \in removed : WakeUpsOf(c) = {}

\* ------------------------------------------------------------------------
\* Specification SpecRestart: the past-due lists of two members across
\* reassignments, removals and restarts
\* ------------------------------------------------------------------------
\* Every due instant of this specification is on an earlier day or more than
\* a week ahead, so neither past-due list has a transition wake-up to register.
OTHER_MEMBER == 2
MaxRestart == 2
MaxRestartPoll == 2
MaxRestartTick == 2
RestartStart == 2 * DAY + 9 * 3600
Members == {MEMBER, OTHER_MEMBER}

RestartSnapshots ==
  {(1 :> TransTask(1, DuePast, m)) : m \in Members}
    \cup {(1 :> TransTask(1, DueLater, MEMBER))}

\* The past-due list async_setup_entry creates for member m.
MemberPastDueList(m) == [cls |-> "DateFiltered", list_type |-> "past_due", member |-> m]

\* {task.id for task in self._filter_tasks(tasks)} of member m's past-due list.
PastDueOf(m, tasks, t) ==
  {i \in DOMAIN tasks :
     /\ tasks[i].assigned_to = m
     /\ DateFilterTask("past_due", [tasks[i] EXCEPT !.assigned_to = MEMBER], t)}

\* The stores of the lists, the Store files, the module-level reminder map,
\* the timers and the suspended checks, threaded through the handlers as one
\* record; `pruned` collects the reminders a handler cancelled (history).
RestartState ==
  [stores |-> _notification_store, disk |-> storage, rem |-> _notification_reminders,
   timers |-> timers, evals |-> evals, pruned |-> {}]

SetRestartState(w) ==
  /\ _notification_store' = w.stores
  /\ storage' = w.disk
  /\ _notification_reminders' = w.rem
  /\ timers' = w.timers
  /\ evals' = w.evals

\* Member m's list within w, as the record the helpers of the check take;
\* `dirty` is `notifications_sent or stale_task_keys`.
MemberState(w, m, dirty) ==
  [store |-> w.stores[m], rem |-> w.rem, timers |-> w.timers, evals |-> w.evals,
   dirty |-> dirty]

\* schedule_reminder called by the NotificationManager of member m's list:
\* the timer registered carries m as the list that registered it (history).
ScheduleReminderBy(n, m, task, reminder_time) ==
  LET n1 == schedule_reminder(n, task, reminder_time)
      tm == n1.rem[task.id].cancel
      own == [tm EXCEPT !.owner = m]
  IN IF task.id \in DOMAIN n.rem /\ n.rem[task.id].when = reminder_time THEN n
     ELSE [n1 EXCEPT !.timers = (@ \ {tm}) \cup {own}, !.rem[task.id].cancel = own]

\* The loop over filtered_tasks from the tasks `rest` on: notified tasks are
\* skipped and at the first other task the check suspends in its send.
MemberCheckLoop(n, m, rest, origin) ==
  LET pending == {task \in rest : ~was_notified(n.store, task)}
  IN IF pending = {} THEN n
     ELSE LET cur == CHOOSE task \in pending : \A o \in pending : task.id <= o.id
              used == {e.eid : e \in n.evals}
          IN [n EXCEPT !.evals = @ \cup
                {[eid |-> MinOf({k \in 1..(Cardinality(used) + 1) : k \notin used}),
                  member |-> m, cur |-> cur,
                  rest |-> {task \in rest : task.id > cur.id},
                  dirty |-> n.dirty, origin |-> origin]}]

\* _check_and_notify_past_due_tasks of member m's list up to its first await.
MemberCheck(n, m, tasks, t, origin) ==
  LET current_task_ids == PastDueOf(m, tasks, t)
      stale_keys == DOMAIN n.store \ current_task_ids
      n1 == [PruneStale(n, stale_keys) EXCEPT !.dirty = stale_keys # {}]
  IN MemberCheckLoop(n1, m, {tasks[i] : i \in current_task_ids}, origin)

\* The reminders a prune or a removal by member m's list cancels (history).
CancelledBy(n, m, keys) ==
  {[by |-> m, timer |-> n.rem[k].cancel] : k \in keys \cap DOMAIN n.rem}

\* The check of member m's list has run from w to n: its store is written
\* back and, when the check has no await left and is dirty, async_save runs.
AfterCheck(w, n, m, cancelled) ==
  [stores |-> Put(w.stores, m, n.store),
   disk |-> IF n.dirty /\ (\A e \in n.evals : e \in w.evals) THEN Put(w.disk, m, n.store)
            ELSE w.disk,
   rem |-> n.rem, timers |-> n.timers, evals |-> n.evals,
   pruned |-> w.pruned \cup cancelled]

\* One list's _check_and_notify_past_due_tasks started in w.
StartCheck(w, m, tasks, t, origin) ==
  LET n0 == MemberState(w, m, FALSE)
  IN AfterCheck(w, MemberCheck(n0, m, tasks, t, origin), m,
                CancelledBy(n0, m, DOMAIN n0.store \ PastDueOf(m, tasks, t)))

\* The checks the lists ms start for one refresh, in the order of the
\* listeners.
RECURSIVE StartChecks(_, _, _, _)
StartChecks(w, ms, tasks, t) ==
  IF ms = {} THEN w
  ELSE StartChecks(StartCheck(w, MinOf(ms), tasks, t, "update"), ms \ {MinOf(ms)},
                   tasks, t)

StoredFor(m) == IF m \in DOMAIN storage THEN storage[m] ELSE NoTasks

\* async_added_to_hass of member m's past-due list: the store is loaded and
\* the first check runs.  Entities are added one after the other.
RestartEntityAdded ==
  /\ \A e \in evals : e.origin # "added"
  /\ \E m \in Members \ DOMAIN _notification_store :
       LET w == StartCheck([RestartState EXCEPT !.stores = Put(@, m, StoredFor(m))],
                           m, tasks_by_id, now, "added")
       IN /\ SetRestartState(w)
          /\ removed' = removed \ {MemberPastDueList(m)}
          /\ lastStep' = [kind |-> "check", check |-> TRUE, pruned |-> w.pruned]
  /\ UNCHANGED <<coordVars, pollHist, clockVars, server, edits, pollInFlight, execs,
                 _scheduled_tasks, _auto_completion_schedules, autoEnabled, mgrGen,
                 callCount, _scheduled_transition_cancel, _cached_task_ids,
                 _cached_data_version, memberAtSchedule, lastPollAt, notifyEnabled,
                 notifyStore, sentCount, failedSends, reminderCalls, guardVars>>

\* A refresh that fetched `snap`; every list added starts its check.
RestartCoordinatorUpdate ==
  /\ edits < MaxRestartPoll
  /\ evals = {}
  /\ edits' = edits + 1
  /\ \E snap \in RestartSnapshots :
       /\ _async_update_data(async_get_tasks(OkResp(snap)))
       /\ server' = snap
  /\ LET w == StartChecks(RestartState, DOMAIN _notification_store, tasks_by_id', now)
     IN /\ SetRestartState(w)
        /\ lastStep' = [kind |-> "check", check |-> TRUE, pruned |-> w.pruned]
  /\ UNCHANGED <<pollHist, clockVars, pollInFlight, execs,
                 _scheduled_tasks, _auto_completion_schedules, autoEnabled, mgrGen,
                 callCount, transVars, notifyEnabled, notifyStore, sentCount,
                 failedSends, reminderCalls, guardVars>>

\* send_past_due_notification returns `sent` to a suspended check: the
\* `if sent:` block, then the rest of the loop and the save.
RestartSendReturns ==
  /\ \E e \in evals, sent \in BOOLEAN :
       LET w0 == [RestartState EXCEPT !.evals = @ \ {e}]
           n0 == MemberState(w0, e.member, e.dirty)
           n1 == IF sent
                 THEN [ScheduleReminderBy(n0, e.member, e.cur,
                                          now + NOTIFICATION_REMINDER_INTERVAL)
                         EXCEPT !.store = mark_notified(@, e.cur), !.dirty = TRUE]
                 ELSE n0
           w == AfterCheck(w0, MemberCheckLoop(n1, e.member, e.rest, e.origin),
                           e.member, {})
       IN /\ SetRestartState(w)
          /\ lastStep' = [kind |-> "sent", check |-> FALSE, sent |-> sent]
  /\ UNCHANGED <<coordVars, pollHist, clockVars, server, edits, pollInFlight, execs,
                 _scheduled_tasks, _auto_completion_schedules, autoEnabled, mgrGen,
                 callCount, transVars, notifyEnabled, notifyStore, sentCount,
                 failedSends, reminderCalls, guardVars>>

\* reminder_callback up to its await, for a reminder member m's list
\* registered: the entry is dropped from the map and, when the snapshot holds
\* the task and it is active, the reminder is sent.
RestartReminderFire ==
  /\ \E tm \in timers :
       /\ tm.purpose = "reminder"
       /\ tm.at <= now
       /\ timers' = timers \ {tm}
       /\ _notification_reminders' = Remove(_notification_reminders, tm.key)
       /\ reminderCalls' =
            IF tm.key \in DOMAIN tasks_by_id /\ tasks_by_id[tm.key].is_active
            THEN reminderCalls \cup
                   {[task |-> tasks_by_id[tm.key], fired |-> now, owner |-> tm.owner]}
            ELSE reminderCalls
       /\ lastStep' = [kind |-> "reminder_fired", check |-> FALSE, task_id |-> tm.key]
  /\ UNCHANGED <<coordVars, pollHist, clockVars, server, edits, pollInFlight, execs,
                 _scheduled_tasks, _auto_completion_schedules, autoEnabled, mgrGen,
                 callCount, transVars, notifyEnabled, memberStores, notifyStore, evals,
                 sentCount, failedSends, guardVars>>

\* The send of a reminder returns and the same manager schedules the next
\* reminder 24 hours after the instant the callback fired.
RestartReminderSendReturns ==
  /\ \E r \in reminderCalls :
       LET n == ScheduleReminderBy(NotifyState, r.owner, r.task,
                                   r.fired + NOTIFICATION_REMINDER_INTERVAL)
       IN /\ reminderCalls' = reminderCalls \ {r}
          /\ timers' = n.timers
          /\ _notification_reminders' = n.rem
          /\ lastStep' = [kind |-> "reminder_sent", check |-> FALSE,
                          task_id |-> r.task.id, fired |-> r.fired]
  /\ UNCHANGED <<coordVars, pollHist, clockVars, server, edits, pollInFlight, execs,
                 _scheduled_tasks, _auto_completion_schedules, autoEnabled, mgrGen,
                 callCount, transVars, notifyEnabled, memberStores, notifyStore, evals,
                 sentCount, failedSends, guardVars>>

\* A periodic refresh at time u that fetches the unchanged snapshot changes
\* nothing: no list has a stale entry or a task to notify.
RestartRefreshIdle(u) ==
  \A m \in DOMAIN _notification_store :
     /\ DOMAIN _notification_store[m] \subseteq PastDueOf(m, tasks_by_id, u)
     /\ \A i \in PastDueOf(m, tasks_by_id, u) :
          was_notified(_notification_store[m], tasks_by_id[i])

\* The clock advances to the next reminder; nothing is awaiting a send.
RestartTick ==
  /\ ticks < MaxRestartTick
  /\ evals = {}
  /\ reminderCalls = {}
  /\ \E t \in {tm.at : tm \in timers} :
       /\ t > now
       /\ TimersAllowClock(t)
       /\ RestartRefreshIdle(now)
       /\ RestartRefreshIdle(t)
       /\ now' = t
  /\ ticks' = ticks + 1
  /\ lastStep' = [kind |-> "other", check |-> FALSE]
  /\ UNCHANGED <<coordVars, pollHist, server, edits, pollInFlight, autoVars, transVars,
                 notifyVars, guardVars>>

\* async_will_remove_from_hass of member m's past-due list (the list is
\* removed, or the entry unloaded): the reminders of the keys of its store
\* are cancelled.  The list is not removed while its check awaits a send.
RestartEntityRemoved ==
  /\ \E m \in DOMAIN _notification_store :
       /\ \A e \in evals : e.member # m
       /\ LET n0 == MemberState(RestartState, m, FALSE)
              n == CancelReminders(n0, DOMAIN n0.store)
          IN /\ _notification_store' = Remove(_notification_store, m)
             /\ _notification_reminders' = n.rem
             /\ timers' = n.timers
             /\ lastStep' = [kind |-> "removed", check |-> FALSE,
                             pruned |-> CancelledBy(n0, m, DOMAIN n0.store)]
             /\ removed' = removed \cup {MemberPastDueList(m)}
  /\ UNCHANGED <<coordVars, pollHist, clockVars, server, edits, pollInFlight, execs,
                 _scheduled_tasks, _auto_completion_schedules, autoEnabled, mgrGen,
                 callCount, _scheduled_transition_cancel, _cached_task_ids,
                 _cached_data_version, memberAtSchedule, lastPollAt, notifyEnabled,
                 storage, notifyStore, evals, sentCount, failedSends, reminderCalls,
                 guardVars>>

\* Home Assistant restarts: timers, the module-level map and the coroutines
\* are gone, the Store files stay, and the first refresh fetches `snap`.
Restart ==
  /\ mgrGen < MaxRestart
  /\ mgrGen' = mgrGen + 1
  /\ \E snap \in RestartSnapshots :
       /\ server' = snap
       /\ tasks_by_id' = snap
       /\ task_hashes' = [i \in DOMAIN snap |-> _hash_task(snap[i])]
  /\ data_version' = 1
  /\ timers' = {}
  /\ _notification_reminders' = NoTasks
  /\ evals' = {}
  /\ reminderCalls' = {}
  /\ _notification_store' = NoTasks
  /\ removed' = {}
  /\ lastStep' = [kind |-> "restart", check |-> FALSE]
  /\ UNCHANGED <<pollHist, clockVars, edits, pollInFlight, execs, _scheduled_tasks,
                 _auto_completion_schedules, autoEnabled, callCount,
                 _scheduled_transition_cancel, _cached_task_ids, _cached_data_version,
                 memberAtSchedule, lastPollAt, notifyEnabled, storage, notifyStore,
                 sentCount, failedSends, guardVars>>

\* The entry was set up with notifications enabled and the first refresh has
\* fetched one task; no list has been added yet and no Store file exists.
InitRestart ==
  /\ now = RestartStart
  /\ server \in RestartSnapshots
  /\ InitListsCommon
  /\ timers = {}
  /\ _scheduled_transition_cancel = NoTasks
  /\ _cached_task_ids = NoTasks
  /\ _cached_data_version = NoTasks
  /\ memberAtSchedule = NoTasks
  /\ notifyEnabled = TRUE
  /\ InitMemberStores
  /\ notifyStore = NoTasks
  /\ _notification_reminders = NoTasks
  /\ evals = {}
  /\ sentCount = NoTasks
  /\ failedSends = {}
  /\ reminderCalls = {}

NextRestart ==
  \/ RestartEntityAdded
  \/ RestartCoordinatorUpdate
  \/ RestartSendReturns
  \/ RestartReminderFire
  \/ RestartReminderSendReturns
  \/ RestartTick
  \/ RestartEntityRemoved
  \/ Restart

SpecRestart == InitRestart /\ [][NextRestart]_vars

\* C31: the reminders that the prune of a check, or the removal, of one
\* member's past-due list cancels were all registered by that same list.
C31_CancelsOnlyOwnReminders ==
  lastStep.kind \in {"check", "removed"} =>
     \A p \in lastStep.pruned : p.timer.owner = p.by

\* C32: with notifications enabled, when the store of a list that was added
\* holds a task with its due instant and the task is still past due with
\* that due instant for the list, a reminder for the task is pending or its
\* callback is running.
C32_ReminderChainContinues ==
  notifyEnabled =>
     \A m \in DOMAIN _notification_store :
        \A i \in DOMAIN _notification_store[m] \cap PastDueOf(m, tasks_by_id, now) :
           was_notified(_notification_store[m], tasks_by_id[i]) =>
              \/ \E tm \in timers : tm.purpose = "reminder" /\ tm.key = i
              \/ \E r \in reminderCalls : r.task.id = i

\* ------------------------------------------------------------------------
\* Specification SpecFilter: one task, one instant, every list of the member
\* ------------------------------------------------------------------------
FilterDay == 10 * DAY

\* "now": in the morning, exactly at each cutoff, in the afternoon, evening.
FilterInstants ==
  {FilterDay + 8 * 3600, FilterDay + 12 * 3600, FilterDay + 14 * 3600,
   FilterDay + 17 * 3600, FilterDay + 18 * 3600}

\* Due instants: none, yesterday, today at the boundaries of the day, at the
\* instants of FilterInstants, around the cutoffs and at the all-day
\* sentinel; later days around the advance windows and the upcoming cutoff.
FilterDues ==
  {NoDue, FilterDay - DAY + 9 * 3600,
   FilterDay, FilterDay + 8 * 3600, FilterDay + 11 * 3600 + 59 * 60,
   FilterDay + 12 * 3600, FilterDay + 16 * 3600 + 59 * 60 + 59, FilterDay + 17 * 3600,
   FilterDay + 20 * 3600, FilterDay + ALL_DAY_SECOND, FilterDay + DAY - 1,
   FilterDay + DAY, FilterDay + DAY + 10 * 3600,
   FilterDay + 3 * DAY + 8 * 3600, FilterDay + 3 * DAY + 10 * 3600,
   FilterDay + 4 * DAY + 8 * 3600, FilterDay + 7 * DAY + 8 * 3600,
   FilterDay + 7 * DAY + 23 * 3600, FilterDay + 8 * DAY - 1, FilterDay + 8 * DAY}

FilterFrequencies ==
  {[ftype |-> FREQUENCY_ONCE, freq |-> 1, unit |-> ""],
   [ftype |-> FREQUENCY_NO_REPEAT, freq |-> 1, unit |-> ""],
   [ftype |-> FREQUENCY_DAILY, freq |-> 1, unit |-> ""],
   [ftype |-> FREQUENCY_WEEKLY, freq |-> 1, unit |-> ""],
   [ftype |-> FREQUENCY_WEEKLY, freq |-> 2, unit |-> ""],
   [ftype |-> FREQUENCY_WEEKLY, freq |-> 0, unit |-> ""],
   [ftype |-> FREQUENCY_INTERVAL, freq |-> 0, unit |-> "months"],
   [ftype |-> FREQUENCY_MONTHLY, freq |-> 1, unit |-> ""],
   [ftype |-> FREQUENCY_YEARLY, freq |-> 1, unit |-> ""],
   [ftype |-> FREQUENCY_DAYS_OF_WEEK, freq |-> 1, unit |-> ""],
   [ftype |-> FREQUENCY_DAY_OF_MONTH, freq |-> 1, unit |-> ""],
   [ftype |-> FREQUENCY_INTERVAL, freq |-> 4, unit |-> "days"],
   [ftype |-> FREQUENCY_INTERVAL, freq |-> 5, unit |-> ""],
   [ftype |-> FREQUENCY_INTERVAL, freq |-> 9, unit |-> "days"],
   [ftype |-> FREQUENCY_INTERVAL, freq |-> 20, unit |-> "days"],
   [ftype |-> FREQUENCY_INTERVAL, freq |-> 1, unit |-> "weeks"],
   [ftype |-> FREQUENCY_INTERVAL, freq |-> 3, unit |-> "weeks"],
   [ftype |-> FREQUENCY_INTERVAL, freq |-> 1, unit |-> "months"],
   [ftype |-> FREQUENCY_INTERVAL, freq |-> 1, unit |-> "years"]}

FilterTasks ==
  {[MkTask(1, due, active, assigned, f.ftype, f.freq)
      EXCEPT !.frequency_metadata.unit = f.unit] :
     due \in FilterDues, active \in BOOLEAN, assigned \in {MEMBER, 2, Unassigned},
     f \in FilterFrequencies}

\* The date-filtered and time-of-day lists async_setup_entry creates for a
\* member.
FilterClassifiers ==
  {DateList(k) : k \in {"past_due", "due_today", "upcoming", "no_due_date"}}
    \cup {TimeOfDayList(k) : k \in {"past_due", "morning", "afternoon", "evening", "all_day"}}

\* The first read of one list's items after the first refresh.
FilterReadItems ==
  /\ \A c \in Entities : _cached_data_version[c] = 0 - 1
  /\ \E c \in Entities :
       /\ SetListState(todo_items(ListState, c, tasks_by_id, data_version, now))
       /\ lastStep' = [kind |-> "read", check |-> FALSE, key |-> c]
  /\ UNCHANGED <<coordVars, pollHist, clockVars, server, edits, pollInFlight, execs,
                 _scheduled_tasks, _auto_completion_schedules, autoEnabled, mgrGen,
                 callCount, lastPollAt, notifyVars, guardVars, removed>>

\* The lists were created and the first refresh has fetched one task.
InitFilter ==
  /\ now \in FilterInstants
  /\ server \in {(1 :> task) : task \in FilterTasks}
  /\ InitListsCommon
  /\ InitNotifications
  /\ LET s == NewLists(FilterClassifiers)
     IN /\ timers = s.timers
        /\ _scheduled_transition_cancel = s.cancel
        /\ _cached_task_ids = s.ids
        /\ _cached_data_version = s.ver
        /\ memberAtSchedule = s.memb

NextFilter == FilterReadItems

SpecFilter == InitFilter /\ [][NextFilter]_vars

\* The task of the snapshot is listed by the list that was read.
Listed == 1 \in _cached_task_ids[lastStep.key]

\* The task of the snapshot is active, assigned to the member and has a due
\* instant.
Candidate ==
  /\ tasks_by_id[1].is_active
  /\ ForMember(tasks_by_id[1])

DueAt == tasks_by_id[1].next_due_date

\* C25 as stated: in every list of kind past-due an active task of the
\* member is listed exactly when its due instant is before now; in the
\* due-today list exactly when it is due today and not before now.
C25_PastDueAndDueTodayMembers ==
  (lastStep.kind = "read" /\ Candidate) =>
     /\ lastStep.key.list_type = "past_due" =>
          (Listed <=> (DueAt # NoDue /\ DueAt < now))
     /\ lastStep.key.list_type = "due_today" =>
          (Listed <=> (/\ DueAt # NoDue
                       /\ _get_local_today_start(now) <= DueAt
                       /\ DueAt <= _get_local_today_end(now)
                       /\ DueAt >= now))

\* C25 amended: the same, except that the time-of-day past-due list ("Today
\* Past Due") lists the task exactly when it is due today and before now.
C25_PastDueTodayOnlyForTimeOfDay ==
  (lastStep.kind = "read" /\ Candidate) =>
     /\ lastStep.key = PastDueList =>
          (Listed <=> (DueAt # NoDue /\ DueAt < now))
     /\ lastStep.key = TimeOfDayList("past_due") =>
          (Listed <=> (/\ DueAt # NoDue
                       /\ _get_local_today_start(now) <= DueAt
                       /\ DueAt < now))
     /\ lastStep.key.list_type = "due_today" =>
          (Listed <=> (/\ DueAt # NoDue
                       /\ _get_local_today_start(now) <= DueAt
                       /\ DueAt <= _get_local_today_end(now)
                       /\ DueAt >= now))

\* C25 witness: the time-of-day past-due list was read for a task of the
\* member due yesterday, and does not list it.
C25_Witness ==
  /\ lastStep.kind = "read"
  /\ lastStep.key = TimeOfDayList("past_due")
  /\ Candidate
  /\ DueAt # NoDue
  /\ DueAt < _get_local_today_start(now)
  /\ ~Listed

\* The unit a frequency kind counts its interval in; "" for the kind that
\* names weekdays and has no interval unit (the code shows such a task up to
\* 7 days ahead).
PeriodUnit(task) ==
  CASE task.frequency_type \in {FREQUENCY_DAILY} -> "days"
    [] task.frequency_type = FREQUENCY_WEEKLY -> "weeks"
    [] task.frequency_type \in {FREQUENCY_MONTHLY, FREQUENCY_DAY_OF_MONTH} -> "months"
    [] task.frequency_type = FREQUENCY_YEARLY -> "years"
    [] task.frequency_type = FREQUENCY_INTERVAL ->
         IF UnitOf(task) \in {"weeks", "months", "years"} THEN UnitOf(task) ELSE "days"
    [] OTHER -> ""

UnitDays(unit) ==
  CASE unit = "days" -> 1
    [] unit = "weeks" -> 7
    [] unit = "months" -> 30
    [] unit = "years" -> 365

\* min(floor(periodDays / 2), 7) for a period of interval units.
AdvanceDaysFor(interval, unit) == MinNum((interval * UnitDays(unit)) \div 2, 7)

NonRecurring(task) == task.frequency_type \in {FREQUENCY_ONCE, FREQUENCY_NO_REPEAT}

TooFrequent(task) ==
  \/ task.frequency_type = FREQUENCY_DAILY
  \/ /\ task.frequency_type = FREQUENCY_INTERVAL
     /\ PeriodUnit(task) = "days"
     /\ task.frequency <= 4

\* The upcoming list was read for an active task of the member due after
\* today and within the upcoming window.
UpcomingCase ==
  /\ lastStep.kind = "read"
  /\ lastStep.key = DateList("upcoming")
  /\ Candidate
  /\ DueAt # NoDue
  /\ DueAt > _get_local_today_end(now)
  /\ DueAt <= _get_local_today_end(now) + DEFAULT_UPCOMING_DAYS * DAY

PartOfDay(due) ==
  IF due % DAY < MORNING_CUTOFF_MINUTES * 60 THEN "morning"
  ELSE IF due % DAY < AFTERNOON_CUTOFF_MINUTES * 60 THEN "afternoon"
  ELSE "evening"

DueWithinToday ==
  /\ DueAt # NoDue
  /\ _get_local_today_start(now) <= DueAt
  /\ DueAt <= _get_local_today_end(now)

C28_PastDueMorningTaskInBoth ==
  (/\ lastStep.kind = "read"
   /\ Candidate
   /\ DueWithinToday
   /\ PartOfDay(DueAt) = "morning"
   /\ DueAt < now
   /\ lastStep.key \in {TimeOfDayList("morning"), TimeOfDayList("past_due"), PastDueList}) =>
     Listed

DateBuckets == {"past_due", "due_today", "upcoming"}

\* The date buckets of the member's lists, and of the member's lists with
\* unassigned tasks, that hold the task of the snapshot now.
MemberBuckets == {k \in DateBuckets : DateFilterTask(k, tasks_by_id[1], now)}
WithUnassignedBuckets ==
  {k \in DateBuckets : WithUnassignedFilterTask(k, tasks_by_id[1], now)}

\* C37: under one assignee filter an active task with a due instant is in at
\* most one of the past-due, due-today and upcoming lists, and when it is due
\* within today and passes the assignee filter it is in exactly one of
\* past-due and due-today (also when it is due exactly now).
C37_DateBucketsDisjoint ==
  (tasks_by_id[1].is_active /\ DueAt # NoDue) =>
     /\ Cardinality(MemberBuckets) <= 1
     /\ Cardinality(WithUnassignedBuckets) <= 1
     /\ (DueWithinToday /\ ForMember(tasks_by_id[1])) =>
          Cardinality(MemberBuckets \cap {"past_due", "due_today"}) = 1
     /\ (DueWithinToday /\ tasks_by_id[1].assigned_to \in {MEMBER, Unassigned}) =>
          Cardinality(WithUnassignedBuckets \cap {"past_due", "due_today"}) = 1

\* C37 witness: the due-today list was read at the very instant the task is
\* due and lists it, and the past-due filter does not hold it.
C37_Witness ==
  /\ lastStep.kind = "read"
  /\ lastStep.key = DateList("due_today")
  /\ Candidate
  /\ DueAt = now
  /\ Listed
  /\ MemberBuckets = {"due_today"}

\* ------------------------------------------------------------------------
\* Specification SpecCutoff: the time-of-day lists under configured cutoffs
\* ------------------------------------------------------------------------
\* The stored cutoff pairs (morning, afternoon), in minutes: the defaults,
\* another ordered pair, an equal pair and a pair with the morning cutoff
\* later than the afternoon cutoff.
CutoffConfigs ==
  {<<12 * 60, 17 * 60>>, <<9 * 60, 18 * 60>>, <<12 * 60, 12 * 60>>, <<17 * 60, 12 * 60>>}

CutoffTasks == {task \in FilterTasks : task.frequency_type = FREQUENCY_DAILY}

TimeOfDayKinds == {"morning", "afternoon", "evening", "all_day"}

\* The time-of-day lists async_setup_entry creates for a member from one
\* config entry; the first refresh has fetched one task.
InitCutoff ==
  /\ now \in FilterInstants
  /\ server \in {(1 :> task) : task \in CutoffTasks}
  /\ InitListsCommon
  /\ InitNotifications
  /\ \E cfg \in CutoffConfigs :
       LET s == NewLists({TimeOfDayListWith(k, cfg[1], cfg[2]) :
                            k \in TimeOfDayKinds \cup {"past_due"}})
       IN /\ timers = s.timers
          /\ _scheduled_transition_cancel = s.cancel
          /\ _cached_task_ids = s.ids
          /\ _cached_data_version = s.ver
          /\ memberAtSchedule = s.memb

SpecCutoff == InitCutoff /\ [][NextFilter]_vars

\* The time-of-day lists of the config entry that hold the task now.
TimeOfDayBuckets ==
  {c \in Entities : c.list_type \in TimeOfDayKinds
                      /\ TimeOfDayFilterTask(c, tasks_by_id[1], now)}

\* C38: whatever cutoffs the config entry stores, the task is in at most one
\* of the morning, afternoon, evening and all-day lists of the member.
C38_TimeOfDayBucketsDisjoint == Cardinality(TimeOfDayBuckets) <= 1

\* ------------------------------------------------------------------------
\* Specification SpecRecur: the first process_tasks over a snapshot of two
\* past-due tasks, the first of any frequency kind
\* ------------------------------------------------------------------------
\* The instant secs seconds into the given civil day.
CivilInstant(year, month, day, secs) ==
  (DaysBeforeYear(year) + DaysBeforeMonth(year, month) + day - 1) * DAY + secs

RecurNow == CivilInstant(2024, 6, 1, 12 * 3600)

\* Due days at the end of a month, on 29 February, in December and mid-month.
RecurDues ==
  {NoDue,
   CivilInstant(2023, 1, 31, 8 * 3600), CivilInstant(2024, 1, 31, 8 * 3600),
   CivilInstant(2024, 2, 29, 8 * 3600), CivilInstant(2023, 12, 15, 0),
   CivilInstant(2023, 11, 30, 9 * 3600), CivilInstant(2023, 3, 31, 8 * 3600),
   CivilInstant(2024, 5, 20, 8 * 3600)}

RecurFrequencies ==
  {[ftype |-> FREQUENCY_ONCE, freq |-> 1, meta |-> NoMeta],
   [ftype |-> FREQUENCY_DAILY, freq |-> 1, meta |-> NoMeta],
   [ftype |-> FREQUENCY_DAILY, freq |-> 0, meta |-> NoMeta],
   [ftype |-> FREQUENCY_WEEKLY, freq |-> 2, meta |-> NoMeta],
   [ftype |-> FREQUENCY_MONTHLY, freq |-> 1, meta |-> NoMeta],
   [ftype |-> FREQUENCY_MONTHLY, freq |-> 3, meta |-> NoMeta],
   [ftype |-> FREQUENCY_MONTHLY, freq |-> 13, meta |-> NoMeta],
   [ftype |-> FREQUENCY_YEARLY, freq |-> 1, meta |-> NoMeta],
   [ftype |-> FREQUENCY_YEARLY, freq |-> 4, meta |-> NoMeta],
   [ftype |-> FREQUENCY_INTERVAL, freq |-> 3, meta |-> NoMeta],
   [ftype |-> FREQUENCY_INTERVAL, freq |-> 3, meta |-> [NoMeta EXCEPT !.unit = "days"]],
   [ftype |-> FREQUENCY_INTERVAL, freq |-> 2, meta |-> [NoMeta EXCEPT !.unit = "weeks"]],
   [ftype |-> FREQUENCY_INTERVAL, freq |-> 1, meta |-> [NoMeta EXCEPT !.unit = "months"]],
   [ftype |-> FREQUENCY_INTERVAL, freq |-> 1, meta |-> [NoMeta EXCEPT !.unit = "years"]],
   [ftype |-> FREQUENCY_INTERVAL, freq |-> 2, meta |-> [NoMeta EXCEPT !.unit = "fortnights"]],
   [ftype |-> FREQUENCY_DAYS_OF_WEEK, freq |-> 1, meta |-> NoMeta],
   [ftype |-> FREQUENCY_DAYS_OF_WEEK, freq |-> 1, meta |-> [NoMeta EXCEPT !.days = {0, 2}]],
   [ftype |-> FREQUENCY_DAYS_OF_WEEK, freq |-> 1, meta |-> [NoMeta EXCEPT !.days = {6}]],
   [ftype |-> FREQUENCY_DAYS_OF_WEEK, freq |-> 1, meta |-> [NoMeta EXCEPT !.days = {7}]],
   [ftype |-> FREQUENCY_DAY_OF_MONTH, freq |-> 1, meta |-> NoMeta],
   [ftype |-> FREQUENCY_DAY_OF_MONTH, freq |-> 1, meta |-> [NoMeta EXCEPT !.day = 0]],
   [ftype |-> FREQUENCY_DAY_OF_MONTH, freq |-> 1, meta |-> [NoMeta EXCEPT !.day = 15]],
   [ftype |-> FREQUENCY_DAY_OF_MONTH, freq |-> 1, meta |-> [NoMeta EXCEPT !.day = 31]],
   [ftype |-> "semiannually", freq |-> 1, meta |-> NoMeta]}

\* Task 1 of any kind, followed in the snapshot by task 2, a daily task due
\* yesterday.
RecurSnapshots ==
  {(1 :> [MkTask(1, due, active, MEMBER, f.ftype, f.freq)
            EXCEPT !.frequency_metadata = f.meta])
     @@ (2 :> MkTask(2, CivilInstant(2024, 5, 31, 8 * 3600), TRUE, MEMBER,
                     FREQUENCY_DAILY, 1)) :
     due \in RecurDues, active \in BOOLEAN, f \in RecurFrequencies}

\* async_setup_entry processes the initial tasks with the new manager.
RecurProcess ==
  /\ lastStep.kind # "processed"
  /\ SetAutoState(AutoListener(AutoState, tasks_by_id))
  /\ lastStep' = [kind |-> "processed",
                  next |-> _calculate_next_recurrence_date(tasks_by_id[1]),
                  raised |-> \E i \in DOMAIN tasks_by_id : RaisesIn(tasks_by_id[i])]
  /\ UNCHANGED <<coordVars, pollHist, clockVars, server, edits, pollInFlight, execs,
                 autoEnabled, mgrGen, callCount>>
  /\ UNCHANGED extVars

\* The first refresh has fetched the tasks and the manager was constructed.
InitRecur ==
  /\ now = RecurNow
  /\ ticks = 0
  /\ server \in RecurSnapshots
  /\ edits = 0
  /\ pollInFlight = NoCall
  /\ tasks_by_id = server
  /\ task_hashes = [i \in DOMAIN server |-> _hash_task(server[i])]
  /\ data_version = 1
  /\ pollResult = "none"
  /\ prevTasks = NoTasks
  /\ prevVersion = 0
  /\ lastResp = OkResp(NoTasks)
  /\ InitAutoManager
  /\ lastStep = [kind |-> "other"]
  /\ InitExt

NextRecur == RecurProcess

SpecRecur == InitRecur /\ [][NextRecur]_vars

\* Task 1 carries no usable recurrence: it does not repeat, has no due
\* instant, is of an unknown kind, names no weekday, or names a day of the
\* month that no month has.
NoUsableRecurrence(task) ==
  \/ ~_is_recurrent_task(task)
  \/ task.next_due_date = NoDue
  \/ task.frequency_type \notin
       {FREQUENCY_DAILY, FREQUENCY_WEEKLY, FREQUENCY_MONTHLY, FREQUENCY_YEARLY,
        FREQUENCY_INTERVAL, FREQUENCY_DAYS_OF_WEEK, FREQUENCY_DAY_OF_MONTH}
  \/ task.frequency_type = FREQUENCY_DAYS_OF_WEEK /\ task.frequency_metadata.days = {}
  \/ /\ task.frequency_type = FREQUENCY_DAY_OF_MONTH
     /\ task.frequency_metadata.day \notin (1..31) \cup {NoDay}

\* C29: for a task that does not repeat, has no due instant, or carries an
\* unknown or malformed frequency specification, the next occurrence is
\* absent and nothing fails; no auto-completion is scheduled for it and the
\* task after it in the snapshot is still processed (its auto-completion is
\* scheduled).
C29_MalformedIsSkipped ==
  (lastStep.kind = "processed" /\ NoUsableRecurrence(tasks_by_id[1])) =>
     /\ lastStep.next = NoDue
     /\ ~lastStep.raised
     /\ 1 \notin DOMAIN _scheduled_tasks
     /\ 2 \in DOMAIN _scheduled_tasks
     /\ \E tm \in timers : tm.purpose = "auto" /\ tm.key = 2

\* The instant n months after dt on the same day of the month, or on the
\* last day of the target month when it has no such day.
ShiftMonths(dt, n) ==
  LET total == YearOf(dt) * 12 + (MonthOf(dt) - 1) + n
      year == total \div 12
      month == (total % 12) + 1
      day == IF DayOf(dt) <= monthrange(year, month) THEN DayOf(dt)
             ELSE monthrange(year, month)
  IN CivilInstant(year, month, day, dt % DAY)

\* The due instant of a task advanced by one period of its kind, an interval
\* of 0 counting as 1.
OnePeriodLater(task) ==
  LET n == IF task.frequency = 0 THEN 1 ELSE task.frequency
      due == task.next_due_date
  IN CASE PeriodUnit(task) = "days" -> due + n * DAY
       [] PeriodUnit(task) = "weeks" -> due + n * 7 * DAY
       [] PeriodUnit(task) = "months" -> ShiftMonths(due, n)
       [] PeriodUnit(task) = "years" -> ShiftMonths(due, 12 * n)

\* A recurring task with a due instant whose kind is a number of days,
\* weeks, months or years.
PeriodicTask(task) ==
  /\ task.next_due_date # NoDue
  /\ \/ task.frequency_type \in
          {FREQUENCY_DAILY, FREQUENCY_WEEKLY, FREQUENCY_MONTHLY, FREQUENCY_YEARLY}
     \/ /\ task.frequency_type = FREQUENCY_INTERVAL
        /\ UnitOf(task) \in {"days", "weeks", "months", "years"}

\* C30: for a recurring task of a kind counted in days, weeks, months or
\* years the next occurrence is the due instant advanced by exactly one
\* period, the day of the month clamped to the last day of the target month.
C30_AdvancesByOnePeriod ==
  (lastStep.kind = "processed" /\ PeriodicTask(tasks_by_id[1])) =>
     lastStep.next = OnePeriodLater(tasks_by_id[1])

\* ------------------------------------------------------------------------
\* Specification SpecComplete: completion requests and the completion guard
\* ------------------------------------------------------------------------
MaxRequests == 3
GUARD_WINDOW == 30
CompleteStart == DAY + 1000

CompleteTasks ==
  (1 :> MkTask(1, DAY + 500, TRUE, MEMBER, FREQUENCY_DAILY, 1))
    @@ (2 :> MkTask(2, DAY + 500, TRUE, MEMBER, FREQUENCY_ONCE, 1))

\* The guard of async_update_todo_item, run under _completion_lock at time t:
\* entries older than 30 seconds are dropped, then the task is either found
\* (duplicate) or marked.
GuardExpire(recent, t) ==
  [i \in {j \in DOMAIN recent : ~(t - recent[j] > GUARD_WINDOW)} |-> recent[i]]

GuardIsDuplicate(recent, task_id, t) == task_id \in DOMAIN GuardExpire(recent, t)

GuardMark(recent, task_id, t) ==
  IF GuardIsDuplicate(recent, task_id, t) THEN GuardExpire(recent, t)
  ELSE Put(GuardExpire(recent, t), task_id, t)

LogRequest(task_id, via, called, ok) ==
  requestLog' = requestLog \cup
    {[n |-> Cardinality(requestLog) + 1, task |-> task_id, at |-> now,
      via |-> via, called |-> called, ok |-> called /\ ok]}

\* client.async_complete_task followed by the coordinator refresh; when the
\* call raises nothing else happens.
CompleteAndRefresh(task_id, ok) ==
  IF ok
  THEN /\ server' = ServerComplete(server, task_id)
       /\ _async_update_data(async_get_tasks(OkResp(server')))
  ELSE UNCHANGED <<server, coordVars>>

\* A list view marks an item completed: async_update_todo_item.
ListCompleteRequest ==
  /\ Cardinality(requestLog) < MaxRequests
  /\ DOMAIN tasks_by_id # {}
  /\ \E task_id \in DOMAIN tasks_by_id, ok \in BOOLEAN :
       /\ _recently_completed_task_ids' =
            GuardMark(_recently_completed_task_ids, task_id, now)
       /\ IF GuardIsDuplicate(_recently_completed_task_ids, task_id, now)
          THEN /\ LogRequest(task_id, "list", FALSE, ok)
               /\ ok
               /\ UNCHANGED <<server, coordVars>>
          ELSE /\ LogRequest(task_id, "list", TRUE, ok)
               /\ CompleteAndRefresh(task_id, ok)
  /\ lastStep' = [kind |-> "other"]
  /\ UNCHANGED <<pollHist, clockVars, edits, pollInFlight, autoVars, transVars,
                 notifyVars>>

\* The donetick.complete_task service: async_complete_task_service.
ServiceCompleteRequest ==
  /\ Cardinality(requestLog) < MaxRequests
  /\ \E task_id \in DOMAIN CompleteTasks, ok \in BOOLEAN :
       /\ LogRequest(task_id, "service", TRUE, ok)
       /\ CompleteAndRefresh(task_id, ok)
  /\ lastStep' = [kind |-> "other"]
  /\ UNCHANGED <<pollHist, clockVars, edits, pollInFlight, autoVars, transVars,
                 notifyVars, _recently_completed_task_ids>>

CompleteTick ==
  /\ ticks < MaxTick
  /\ \E t \in {now + 1, now + GUARD_WINDOW, now + GUARD_WINDOW + 1} : now' = t
  /\ ticks' = ticks + 1
  /\ lastStep' = [kind |-> "other"]
  /\ UNCHANGED <<coordVars, pollHist, server, edits, pollInFlight, autoVars, extVars>>

\* The integration set up with only the all-tasks list, auto-completion and
\* notifications off.
InitComplete ==
  /\ now = CompleteStart
  /\ ticks = 0
  /\ server = CompleteTasks
  /\ edits = 0
  /\ pollInFlight = NoCall
  /\ tasks_by_id = server
  /\ task_hashes = [i \in DOMAIN server |-> _hash_task(server[i])]
  /\ data_version = 1
  /\ pollResult = "none"
  /\ prevTasks = NoTasks
  /\ prevVersion = 0
  /\ lastResp = OkResp(NoTasks)
  /\ InitAutoManager
  /\ InitExt
  /\ lastStep = [kind |-> "other"]

NextComplete ==
  \/ ListCompleteRequest
  \/ ServiceCompleteRequest
  \/ CompleteTick

SpecComplete == InitComplete /\ [][NextComplete]_vars

\* C3: of the completion requests for one task id that arrive within a
\* 30-second window, at most one results in a remote CompleteTask call.
C3_OneCallPerWindow ==
  \A r1 \in requestLog : \A r2 \in requestLog :
     (/\ r1 # r2
      /\ r1.task = r2.task
      /\ Abs(r1.at - r2.at) <= GUARD_WINDOW)
     => ~(r1.called /\ r2.called)

\* C33: a task id is in the recently-completed guard only for a list-view
\* completion whose remote call succeeded, and a list-view request is
\* suppressed only by such a completion within the last 30 seconds: after a
\* failed call the next request reaches the remote service.
C33_GuardHoldsOnlySucceeded ==
  /\ \A task_id \in DOMAIN _recently_completed_task_ids :
       \E r \in requestLog :
          /\ r.task = task_id /\ r.via = "list" /\ r.called /\ r.ok
          /\ r.at = _recently_completed_task_ids[task_id]
  /\ \A r2 \in requestLog :
       (r2.via = "list" /\ ~r2.called) =>
          \E r1 \in requestLog :
             /\ r1.n < r2.n /\ r1.task = r2.task /\ r1.via = "list"
             /\ r1.called /\ r1.ok
             /\ r2.at - r1.at <= GUARD_WINDOW

====
